---------------------------- MODULE Spec2Model ----------------------------
(***************************************************************************)
(* A model of the retrieval pipeline of study-mate-ai: the shared retry    *)
(* policy (withRetries), document ingestion (POST /api/upload), document   *)
(* deletion (DELETE /api/upload/documents/:id), the query flow             *)
(* (POST /api/chat), quiz generation (POST /api/quiz) and quiz validation  *)
(* (POST /api/quiz/validate), over the two vector stores (the remote       *)
(* Pinecone index and the relational chunks table), and the service and    *)
(* text functions called on their own.                                     *)
(*                                                                         *)
(* Strings are sequences of one-character strings, so that trim() is an    *)
(* operator of the model. An error is a record                             *)
(*   [status, code, message, retryAfter]                                   *)
(* where status 0 stands for "no status" (undefined in the source: it is   *)
(* neither === 429 nor >= 500, exactly as 0), code "" for "no code", the   *)
(* message is a sequence of words and retryAfter is the Retry-After        *)
(* header: absent, a number of seconds, or a text that is not a number.    *)
(***************************************************************************)
EXTENDS Integers, Sequences, FiniteSets, TLC

VARIABLES
    \* ---- one withRetries call observed in isolation (SpecRetry) ----
    rt_pc,        \* "idle" | "running" | "returned" | "thrown"
    rt_attempt,   \* the local variable attempt
    rt_calls,     \* number of invocations of fn() so far
    rt_errs,      \* the errors fn() threw, in order
    rt_delays,    \* the delays waited, in order
    rt_result     \* the value returned or the error thrown

rtVars == <<rt_pc, rt_attempt, rt_calls, rt_errs, rt_delays, rt_result>>

VARIABLES
    \* ---- configuration and stores ----
    pineconeKey,  \* process.env.PINECONE_API_KEY is set
    documents,    \* the documents table: records [id, userId]
    chunks,       \* the chunks table: records [id, documentId, text, embedding]
    pcVectors,    \* the remote index: records [id, values, metadata]
    createdBy,    \* history: the owner each document id was created for
    nextDocId,    \* the next fresh document id
    chats,        \* the chats table: records [id, userId, query, answer]
    nextChatId    \* the next fresh chat id

storeVars == <<pineconeKey, documents, chunks, pcVectors, createdBy, nextDocId, chats, nextChatId>>

VARIABLES
    \* ---- the POST /api/upload request in flight ----
    up_pc,        \* "idle" | "embed" | "storePinecone" | "storeDB" | "done"
    up_user,      \* req.user.id
    up_chunks,    \* textChunks
    up_doc,       \* document.id
    up_provErr,   \* history: the last error the embedding provider threw
    up_embeddings,\* embeddings (the records to store)
    up_resp       \* the response sent

upVars == <<up_pc, up_user, up_chunks, up_doc, up_provErr, up_embeddings, up_resp>>

VARIABLES
    \* ---- the DELETE /api/upload/documents/:id request in flight ----
    del_pc,       \* "idle" | "vectors" | "document" | "done"
    del_user,     \* req.user.id
    del_doc,      \* req.params.id
    del_resp      \* the response sent

delVars == <<del_pc, del_user, del_doc, del_resp>>

VARIABLES
    \* ---- the POST /api/chat request in flight ----
    chat_pc,      \* "idle" | "embed" | "search" | "complete" | "persist" | "done"
    chat_user,    \* req.user.id
    chat_query,   \* query
    chat_results, \* searchResults
    chat_context, \* contextChunks
    chat_answer,  \* answer
    chat_trace,   \* history: the service calls the handler has made, in order
    chat_resp     \* the response sent

chatVars ==
    <<chat_pc, chat_user, chat_query, chat_results, chat_context, chat_answer, chat_trace,
      chat_resp>>

VARIABLES
    \* ---- one call of a service function observed in isolation ----
    call_pc,      \* "idle" | "returned"
    call_fn,      \* the name of the function called
    call_args,    \* its arguments
    call_result   \* [ok, value, ...]: the value returned or the error thrown

callVars == <<call_pc, call_fn, call_args, call_result>>

VARIABLES
    \* ---- the POST /api/quiz request in flight ----
    quiz_pc,      \* "idle" | "chunks" | "generate" | "done"
    quiz_user,    \* req.user.id
    quiz_doc,     \* documentId (0 when the body has none)
    quiz_num,     \* numQuestions (0 when the body has none)
    quiz_chunks,  \* documentChunks: the ids of the chunks read
    quiz_calls,   \* history: the requests made to the completion provider
    quiz_resp     \* the response sent

quizVars == <<quiz_pc, quiz_user, quiz_doc, quiz_num, quiz_chunks, quiz_calls, quiz_resp>>

vars == <<rtVars, storeVars, upVars, delVars, chatVars, callVars, quizVars>>

-----------------------------------------------------------------------------
(* Program constants *)

DefaultRetries == 5
DefaultBaseDelayMs == 500
QuotaStatus == 429

-----------------------------------------------------------------------------
(* Errors of the provider *)

NoHeader == [kind |-> "absent", sec |-> 0]
NumHeader(s) == [kind |-> "num", sec |-> s]
TextHeader == [kind |-> "text", sec |-> 0]

MkErr(status, code, message, retryAfter) ==
    [status |-> status, code |-> code, message |-> message, retryAfter |-> retryAfter]

\* the errors fn() may throw: rate limits with and without Retry-After, server
\* errors at both ends of the 5xx range, quota signals by code and by message
\* only (under several statuses), and errors of no retried class
ErrRateLimit == MkErr(429, "rate_limit_exceeded", <<"Rate", "limit", "reached">>, NoHeader)
ErrRateLimitAfter2 == MkErr(429, "rate_limit_exceeded", <<"Rate", "limit", "reached">>, NumHeader(2))
ErrRateLimitAfter0 == MkErr(429, "rate_limit_exceeded", <<"Rate", "limit", "reached">>, NumHeader(0))
ErrRateLimitDate == MkErr(429, "rate_limit_exceeded", <<"Rate", "limit", "reached">>, TextHeader)
ErrServer500 == MkErr(500, "", <<"Internal", "server", "error">>, NoHeader)
ErrServer599 == MkErr(599, "", <<"Network", "timeout">>, NoHeader)
ErrQuotaCode == MkErr(429, "insufficient_quota", <<"You", "exceeded", "your", "plan">>, NoHeader)
ErrQuotaMsg500 == MkErr(500, "", <<"Monthly", "QUOTA", "reached">>, NoHeader)
ErrQuotaMsg400 == MkErr(400, "billing", <<"quota", "exhausted">>, NoHeader)
ErrBadRequest == MkErr(400, "invalid_request_error", <<"Bad", "request">>, NoHeader)
ErrNoStatus == MkErr(0, "", <<"Connection", "error">>, NoHeader)
ErrStatus600 == MkErr(600, "", <<"Unknown", "error">>, NoHeader)

ProviderErrors ==
    { ErrRateLimit, ErrRateLimitAfter2, ErrRateLimitAfter0, ErrRateLimitDate,
      ErrServer500, ErrServer599, ErrQuotaCode, ErrQuotaMsg500, ErrQuotaMsg400,
      ErrBadRequest, ErrNoStatus, ErrStatus600 }

\* /quota/i.test(message)
MatchesQuota(message) ==
    \E i \in DOMAIN message : message[i] \in {"quota", "Quota", "QUOTA"}

\* code === 'insufficient_quota' || /quota/i.test(message)
IsQuotaError(err) ==
    err.code = "insufficient_quota" \/ MatchesQuota(err.message)

\* the error withRetries throws in place of a quota signal
QuotaExceededError ==
    MkErr(QuotaStatus, "insufficient_quota", <<"OpenAI", "quota", "exceeded">>, NoHeader)

\* baseDelayMs * Math.pow(2, attempt)
Backoff(baseDelayMs, attempt) == baseDelayMs * (2 ^ attempt)

\* the delay of the 429 branch: Retry-After seconds when the header is a
\* non-zero number, else the exponential backoff
RateLimitDelay(err, baseDelayMs, attempt) ==
    IF err.retryAfter.kind = "num" /\ err.retryAfter.sec # 0
    THEN err.retryAfter.sec * 1000
    ELSE Backoff(baseDelayMs, attempt)

\* WithRetriesCatch with the 429 retry tested before the quota signal
WithRetriesCatch_QuotaAfterRetry(err, attempt, maxRetries, baseDelayMs) ==
    IF err.status = 429 /\ attempt < maxRetries
    THEN [do |-> "retry", err |-> err,
          delay |-> RateLimitDelay(err, baseDelayMs, attempt), attempt |-> attempt + 1]
    ELSE IF IsQuotaError(err)
    THEN [do |-> "throw", err |-> QuotaExceededError, delay |-> 0, attempt |-> attempt]
    ELSE IF err.status >= 500 /\ err.status < 600 /\ attempt < maxRetries
    THEN [do |-> "retry", err |-> err,
          delay |-> Backoff(baseDelayMs, attempt), attempt |-> attempt + 1]
    ELSE [do |-> "throw", err |-> err, delay |-> 0, attempt |-> attempt]

\* WithRetriesCatch with the cap tested by <= instead of <
WithRetriesCatch_OffByOne(err, attempt, maxRetries, baseDelayMs) ==
    IF IsQuotaError(err)
    THEN [do |-> "throw", err |-> QuotaExceededError, delay |-> 0, attempt |-> attempt]
    ELSE IF err.status = 429 /\ attempt <= maxRetries
    THEN [do |-> "retry", err |-> err,
          delay |-> RateLimitDelay(err, baseDelayMs, attempt), attempt |-> attempt + 1]
    ELSE IF err.status >= 500 /\ err.status < 600 /\ attempt <= maxRetries
    THEN [do |-> "retry", err |-> err,
          delay |-> Backoff(baseDelayMs, attempt), attempt |-> attempt + 1]
    ELSE [do |-> "throw", err |-> err, delay |-> 0, attempt |-> attempt]

\* WithRetriesCatch without the 5xx branch
WithRetriesCatch_No5xx(err, attempt, maxRetries, baseDelayMs) ==
    IF IsQuotaError(err)
    THEN [do |-> "throw", err |-> QuotaExceededError, delay |-> 0, attempt |-> attempt]
    ELSE IF err.status = 429 /\ attempt < maxRetries
    THEN [do |-> "retry", err |-> err,
          delay |-> RateLimitDelay(err, baseDelayMs, attempt), attempt |-> attempt + 1]
    ELSE [do |-> "throw", err |-> err, delay |-> 0, attempt |-> attempt]

\* WithRetriesCatch retrying every status from 400 up
WithRetriesCatch_Retry4xx(err, attempt, maxRetries, baseDelayMs) ==
    IF IsQuotaError(err)
    THEN [do |-> "throw", err |-> QuotaExceededError, delay |-> 0, attempt |-> attempt]
    ELSE IF err.status = 429 /\ attempt < maxRetries
    THEN [do |-> "retry", err |-> err,
          delay |-> RateLimitDelay(err, baseDelayMs, attempt), attempt |-> attempt + 1]
    ELSE IF err.status >= 400 /\ err.status < 600 /\ attempt < maxRetries
    THEN [do |-> "retry", err |-> err,
          delay |-> Backoff(baseDelayMs, attempt), attempt |-> attempt + 1]
    ELSE [do |-> "throw", err |-> err, delay |-> 0, attempt |-> attempt]

\* WithRetriesCatch without attempt += 1
WithRetriesCatch_NoIncrement(err, attempt, maxRetries, baseDelayMs) ==
    IF IsQuotaError(err)
    THEN [do |-> "throw", err |-> QuotaExceededError, delay |-> 0, attempt |-> attempt]
    ELSE IF err.status = 429 /\ attempt < maxRetries
    THEN [do |-> "retry", err |-> err,
          delay |-> RateLimitDelay(err, baseDelayMs, attempt), attempt |-> attempt]
    ELSE IF err.status >= 500 /\ err.status < 600 /\ attempt < maxRetries
    THEN [do |-> "retry", err |-> err,
          delay |-> Backoff(baseDelayMs, attempt), attempt |-> attempt]
    ELSE [do |-> "throw", err |-> err, delay |-> 0, attempt |-> attempt]

\* the catch block of withRetries for one failure of fn(): what the loop does
\* next, given the error and the current value of attempt
WithRetriesCatch(err, attempt, maxRetries, baseDelayMs) ==
    IF IsQuotaError(err)
    THEN [do |-> "throw", err |-> QuotaExceededError, delay |-> 0, attempt |-> attempt]
    ELSE IF err.status = 429 /\ attempt < maxRetries
    THEN [do |-> "retry", err |-> err,
          delay |-> RateLimitDelay(err, baseDelayMs, attempt), attempt |-> attempt + 1]
    ELSE IF err.status >= 500 /\ err.status < 600 /\ attempt < maxRetries
    THEN [do |-> "retry", err |-> err,
          delay |-> Backoff(baseDelayMs, attempt), attempt |-> attempt + 1]
    ELSE [do |-> "throw", err |-> err, delay |-> 0, attempt |-> attempt]

-----------------------------------------------------------------------------
(* One withRetries call, step by step *)

RtInit ==
    /\ rt_pc = "idle"
    /\ rt_attempt = 0
    /\ rt_calls = 0
    /\ rt_errs = <<>>
    /\ rt_delays = <<>>
    /\ rt_result = "none"

\* withRetries(fn) is called with the default options: attempt = 0
RtCall ==
    /\ rt_pc # "running"
    /\ rt_pc' = "running"
    /\ rt_attempt' = 0
    /\ rt_calls' = 0
    /\ rt_errs' = <<>>
    /\ rt_delays' = <<>>
    /\ rt_result' = "none"

\* one iteration of the loop in which fn() resolves: return await fn()
RtInvokeOk ==
    /\ rt_pc = "running"
    /\ rt_calls' = rt_calls + 1
    /\ rt_pc' = "returned"
    /\ rt_result' = "ok"
    /\ UNCHANGED <<rt_attempt, rt_errs, rt_delays>>

\* one iteration of the loop in which fn() rejects with err
RtInvokeFail ==
    /\ rt_pc = "running"
    /\ \E err \in ProviderErrors :
         LET c == WithRetriesCatch(err, rt_attempt, DefaultRetries, DefaultBaseDelayMs) IN
         /\ rt_calls' = rt_calls + 1
         /\ rt_errs' = Append(rt_errs, err)
         /\ rt_attempt' = c.attempt
         /\ IF c.do = "retry"
            THEN /\ rt_delays' = Append(rt_delays, c.delay)
                 /\ UNCHANGED <<rt_pc, rt_result>>
            ELSE /\ rt_pc' = "thrown"
                 /\ rt_result' = c.err
                 /\ UNCHANGED rt_delays

RtNext == RtCall \/ RtInvokeOk \/ RtInvokeFail

-----------------------------------------------------------------------------
(* Bounds of the model *)

MaxDocs == 2
MaxChunks == 2
MaxChats == 1
MaxResults == 4
MaxRows == 3
MaxTopK == 3
MaxAnswered == 2
MaxValidated == 3
MaxTextLen == 5
MaxTokensLimit == 2
\* the chunk size of the model, in estimated tokens of 4 characters: the
\* route's splitTextIntoChunks(cleanedText, 500), scaled to the short texts
\* of the model so that one file yields several chunks
ChunkTokens == 1

Users == {"alice", "bob"}

-----------------------------------------------------------------------------
(* withRetries as the request flows use it: one await *)

\* what one invocation of fn() does: it resolves, or it rejects with err
Resolves == [ok |-> TRUE, err |-> MkErr(0, "", <<>>, NoHeader)]
Rejects(err) == [ok |-> FALSE, err |-> err]

Repeat(x, k) == [i \in 1..k |-> x]

\* the provider's behaviour over one call of a flow, invocation by
\* invocation: no, one or DefaultRetries rate limits, then a last outcome
ProviderScripts ==
    { Repeat(Rejects(ErrRateLimit), k) \o <<last>> :
        k \in {0, 1, DefaultRetries},
        last \in {Resolves, Rejects(ErrRateLimit), Rejects(ErrServer500),
                  Rejects(ErrQuotaCode), Rejects(ErrBadRequest)} }

\* the loop of withRetries run over a script: [do |-> "return" | "throw",
\* err, calls, last], last being the last error fn() threw; "pending" when
\* the script ends before the loop does
RECURSIVE WithRetriesLoop(_, _, _, _, _)
WithRetriesLoop(script, attempt, calls, maxRetries, baseDelayMs) ==
    IF script = <<>>
    THEN [do |-> "pending", err |-> Resolves.err, calls |-> calls, last |-> Resolves.err]
    ELSE IF script[1].ok
    THEN [do |-> "return", err |-> Resolves.err, calls |-> calls + 1, last |-> Resolves.err]
    ELSE LET c == WithRetriesCatch(script[1].err, attempt, maxRetries, baseDelayMs) IN
         IF c.do = "throw"
         THEN [do |-> "throw", err |-> c.err, calls |-> calls + 1, last |-> script[1].err]
         ELSE WithRetriesLoop(Tail(script), c.attempt, calls + 1, maxRetries, baseDelayMs)

\* withRetries(fn) with the default options
WithRetries(script) == WithRetriesLoop(script, 0, 0, DefaultRetries, DefaultBaseDelayMs)

-----------------------------------------------------------------------------
(* Texts and the embedding provider *)

TextA == <<"a", "a", "a">>
TextB == <<"b", "b", "b">>

\* chunks as splitTextIntoChunks produces them: trimmed and not empty
ChunkTexts == {TextA, TextB}

SeqsUpTo(S, n) == UNION {[1..k -> S] : k \in 0..n}
ChunkLists == SeqsUpTo(ChunkTexts, MaxChunks)

RECURSIVE TrimStart(_)
TrimStart(t) ==
    IF t = <<>> THEN <<>>
    ELSE IF t[1] = " " THEN TrimStart(Tail(t)) ELSE t

RECURSIVE TrimEnd(_)
TrimEnd(t) ==
    IF t = <<>> THEN <<>>
    ELSE IF t[Len(t)] = " " THEN TrimEnd(SubSeq(t, 1, Len(t) - 1)) ELSE t

\* String.prototype.trim
Trim(t) == TrimEnd(TrimStart(t))

\* texts.filter(text => text.trim().length > 0)
ValidTexts(texts) == SelectSeq(texts, LAMBDA t : Len(Trim(t)) > 0)

-----------------------------------------------------------------------------
(* Text processing: cleanText and splitTextIntoChunks *)

\* the character classes of the two functions, over the characters of the
\* model's texts (the letters a and b, the space, the terminators, and "#",
\* a character that cleanText removes)
Whitespace == {" "}
Terminators == {".", "!", "?"}
KeptChars == {"a", "b", " ", ".", ",", "!", "?", "-"}

\* .replace(/\s+/g, ' '): every run of whitespace becomes one space
RECURSIVE CollapseSpaces(_)
CollapseSpaces(t) ==
    IF t = <<>> THEN <<>>
    ELSE IF t[1] \in Whitespace
    THEN <<" ">> \o CollapseSpaces(TrimStart(Tail(t)))
    ELSE <<t[1]>> \o CollapseSpaces(Tail(t))

\* cleanText: collapse the whitespace, drop every character that is not a
\* word character, whitespace or one of . , ! ? -, then trim
CleanText(text) ==
    Trim(SelectSeq(CollapseSpaces(text), LAMBDA c : c \in KeptChars))

\* text.split(/[.!?]+/): the pieces between the terminators (the pieces
\* between two adjacent terminators are empty and the filter drops them, as
\* it drops the empty pieces split() itself yields at the two ends)
RECURSIVE SplitPieces(_, _)
SplitPieces(t, piece) ==
    IF t = <<>> THEN <<piece>>
    ELSE IF t[1] \in Terminators
    THEN <<piece>> \o SplitPieces(Tail(t), <<>>)
    ELSE SplitPieces(Tail(t), Append(piece, t[1]))

\* ChunkLoop starting the new chunk empty when it flushes the current one
RECURSIVE ChunkLoop_DropsAtFlush(_, _, _, _)
ChunkLoop_DropsAtFlush(sentences, chunkList, currentChunk, maxTokens) ==
    IF sentences = <<>>
    THEN IF Trim(currentChunk) # <<>>
         THEN Append(chunkList, Trim(currentChunk))
         ELSE chunkList
    ELSE LET trimmedSentence == Trim(sentences[1]) IN
         IF trimmedSentence = <<>>
         THEN ChunkLoop_DropsAtFlush(Tail(sentences), chunkList, currentChunk, maxTokens)
         ELSE IF Len(currentChunk \o trimmedSentence) > 4 * maxTokens /\ currentChunk # <<>>
         THEN ChunkLoop_DropsAtFlush(Tail(sentences), Append(chunkList, Trim(currentChunk)),
                                     <<>>, maxTokens)
         ELSE ChunkLoop_DropsAtFlush(Tail(sentences), chunkList,
                        currentChunk
                            \o (IF currentChunk # <<>> THEN <<".", " ">> ELSE <<>>)
                            \o trimmedSentence,
                        maxTokens)

\* the for loop of splitTextIntoChunks and the push that follows it
RECURSIVE ChunkLoop(_, _, _, _)
ChunkLoop(sentences, chunkList, currentChunk, maxTokens) ==
    IF sentences = <<>>
    THEN IF Trim(currentChunk) # <<>>
         THEN Append(chunkList, Trim(currentChunk))
         ELSE chunkList
    ELSE LET trimmedSentence == Trim(sentences[1]) IN
         IF trimmedSentence = <<>>
         THEN ChunkLoop(Tail(sentences), chunkList, currentChunk, maxTokens)
         \* estimatedTokens = length / 4 > maxTokens
         ELSE IF Len(currentChunk \o trimmedSentence) > 4 * maxTokens /\ currentChunk # <<>>
         THEN ChunkLoop(Tail(sentences), Append(chunkList, Trim(currentChunk)),
                        trimmedSentence, maxTokens)
         ELSE ChunkLoop(Tail(sentences), chunkList,
                        currentChunk
                            \o (IF currentChunk # <<>> THEN <<".", " ">> ELSE <<>>)
                            \o trimmedSentence,
                        maxTokens)

SplitTextIntoChunks(text, maxTokens) ==
    LET sentences == SelectSeq(SplitPieces(text, <<>>), LAMBDA s : Len(Trim(s)) > 0)
    IN ChunkLoop(sentences, <<>>, <<>>, maxTokens)

\* a text of the given sentences, each ended by a terminator and a space
RECURSIVE TextOf(_)
TextOf(sentences) ==
    IF sentences = <<>> THEN <<>>
    ELSE sentences[1] \o <<".", " ">> \o TextOf(Tail(sentences))

\* the texts of the uploaded files: texts of up to MaxChunks sentences (the
\* empty text among them), a blank text, a text of punctuation alone and a
\* text cleanText empties
FileTexts == {TextOf(l) : l \in ChunkLists} \cup {<<" ", " ">>, <<".">>, <<"#">>}

\* req.file as the route reads it: text files of every text, and one PDF
\* (the text stands for what pdf-parse yields when it succeeds)
Files ==
    { [mimetype |-> "text/plain", text |-> x] : x \in FileTexts }
        \cup { [mimetype |-> "application/pdf", text |-> TextOf(<<TextA>>)] }

\* extractText: the text of a text file; for a PDF what pdf-parse yields, or
\* the error thrown when it fails
ExtractText(file) ==
    IF file.mimetype = "text/plain"
    THEN { [ok |-> TRUE, text |-> file.text] }
    ELSE { [ok |-> TRUE, text |-> file.text], [ok |-> FALSE, text |-> <<>>] }

-----------------------------------------------------------------------------
(* The embedding provider *)

CountChar(t, c) == Cardinality({i \in DOMAIN t : t[i] = c})

\* the provider's embedding of one text: a vector of two dimensions, the
\* numbers of a's and of b's in the text
EmbedOf(t) == <<CountChar(t, "a"), CountChar(t, "b")>>

\* openai.embeddings.create({input}) when it succeeds: response.data, one
\* item per input, in the order of the input
CreateEmbeddings(input) == [i \in DOMAIN input |-> [embedding |-> EmbedOf(input[i])]]

\* generateEmbeddings on a successful response: response.data.map(item => ...)
\* (the token count of each item plays no part in the flows and is left out)
EmbeddingResponses(data) == [i \in DOMAIN data |-> [embedding |-> data[i].embedding]]

NoError == Resolves.err

\* catch (error) { throw new Error(error?.message || fallback) } of the
\* generate* functions: a new error that keeps the message alone
WrapError(err, fallback) ==
    MkErr(0, "", IF err.message # <<>> THEN err.message ELSE fallback, NoHeader)

-----------------------------------------------------------------------------
(* The two vector stores *)

\* storeEmbeddings: the vectors upserted into the remote index
PineconeVectorsOf(embeddings) ==
    { [id |-> embeddings[i].id,
       values |-> embeddings[i].embedding,
       metadata |-> [text |-> embeddings[i].text,
                     documentId |-> embeddings[i].documentId]] : i \in DOMAIN embeddings }

\* storeEmbeddingsInDB: the rows of prisma.chunk.createMany
ChunkRowsOf(embeddings) ==
    { [id |-> embeddings[i].id,
       documentId |-> embeddings[i].documentId,
       text |-> embeddings[i].text,
       embedding |-> embeddings[i].embedding] : i \in DOMAIN embeddings }

\* the remote index's metadata filter {key: {$eq: value}}: a record without
\* the key does not match
MetadataEq(v, key, value) ==
    key \in DOMAIN v.metadata /\ v.metadata[key] = value

DocumentIds == {d.id : d \in documents}

-----------------------------------------------------------------------------
(* Responses *)

Resp(status, message) ==
    [status |-> status, message |-> message, error |-> <<>>,
     documentId |-> 0, chunksCreated |-> 0, storageMethod |-> ""]

NoResp == Resp(0, "")

-----------------------------------------------------------------------------
(* POST /api/upload *)

\* the catch of step 5: the status of an embedding failure
EmbeddingFailureStatus(error) ==
    IF error.status = 429 \/ error.code = "insufficient_quota" THEN 429 ELSE 500

\* crypto.randomUUID(): a fresh id, here the pair of the document and the
\* position (a document is ingested once)
ChunkId(docId, index) == [doc |-> docId, idx |-> index]

\* UploadRecords pairing the embeddings with the chunks in reverse order
UploadRecords_Reversed(embeddingResponses, textChunks, docId) ==
    [i \in DOMAIN embeddingResponses |->
        [id |-> ChunkId(docId, i),
         text |-> textChunks[Len(textChunks) + 1 - i],
         embedding |-> embeddingResponses[i].embedding,
         documentId |-> docId]]

\* embeddingResponses.map((response, index) => ({id, text, embedding, documentId}))
UploadRecords(embeddingResponses, textChunks, docId) ==
    [i \in DOMAIN embeddingResponses |->
        [id |-> ChunkId(docId, i),
         text |-> textChunks[i],
         embedding |-> embeddingResponses[i].embedding,
         documentId |-> docId]]

\* UploadChecks without the check of the chunk list
UploadChecks_NoChunkCheck(extraction) ==
    IF ~extraction.ok
    THEN [pass |-> FALSE, textChunks |-> <<>>,
          resp |-> [Resp(400, "Failed to extract text from file")
                      EXCEPT !.error = <<"Failed", "to", "extract", "text", "from", "document">>]]
    ELSE IF Trim(extraction.text) = <<>>
    THEN [pass |-> FALSE, textChunks |-> <<>>,
          resp |-> Resp(400, "No text content found in the file")]
    ELSE [pass |-> TRUE, resp |-> NoResp,
          textChunks |-> SplitTextIntoChunks(CleanText(extraction.text), ChunkTokens)]

\* steps 1-3 on the outcome of extractText: the three checks, each with its
\* rejection, and the chunk list when they pass
UploadChecks(extraction) ==
    IF ~extraction.ok
    THEN [pass |-> FALSE, textChunks |-> <<>>,
          resp |-> [Resp(400, "Failed to extract text from file")
                      EXCEPT !.error = <<"Failed", "to", "extract", "text", "from", "document">>]]
    ELSE IF Trim(extraction.text) = <<>>
    THEN [pass |-> FALSE, textChunks |-> <<>>,
          resp |-> Resp(400, "No text content found in the file")]
    ELSE LET textChunks == SplitTextIntoChunks(CleanText(extraction.text), ChunkTokens) IN
         IF Len(textChunks) = 0
         THEN [pass |-> FALSE, textChunks |-> <<>>,
               resp |-> Resp(400, "No text chunks could be created from the file")]
         ELSE [pass |-> TRUE, textChunks |-> textChunks, resp |-> NoResp]

\* steps 1-4: extract, check, clean, chunk, check; a rejection answers 400
\* and returns, else createDocument creates the document record (or throws)
UploadStart(user, file) ==
    /\ up_pc = "idle"
    /\ nextDocId <= MaxDocs
    /\ up_user' = user
    /\ up_provErr' = NoError
    /\ up_embeddings' = <<>>
    /\ \E extraction \in ExtractText(file) :
         LET checks == UploadChecks(extraction) IN
         /\ up_chunks' = checks.textChunks
         /\ IF ~checks.pass
            THEN /\ up_pc' = "done"
                 /\ up_resp' = checks.resp
                 /\ up_doc' = 0
                 /\ UNCHANGED storeVars
            ELSE \E created \in BOOLEAN :
                 IF created
                 THEN /\ documents' = documents \cup {[id |-> nextDocId, userId |-> user]}
                      /\ createdBy' = [d \in DOMAIN createdBy \cup {nextDocId} |->
                                         IF d = nextDocId THEN user ELSE createdBy[d]]
                      /\ nextDocId' = nextDocId + 1
                      /\ up_doc' = nextDocId
                      /\ up_pc' = "embed"
                      /\ up_resp' = NoResp
                      /\ UNCHANGED <<pineconeKey, chunks, pcVectors, chats, nextChatId>>
                 ELSE /\ up_pc' = "done"
                      /\ up_resp' = Resp(500, "Internal server error during file processing")
                      /\ up_doc' = 0
                      /\ UNCHANGED storeVars
    /\ UNCHANGED <<quizVars, callVars, rtVars, delVars, chatVars>>

\* generateEmbeddings(texts) over a script of the provider:
\* [ok, value (the embedding responses), error (what it throws), last]
GenerateEmbeddings(texts, script) ==
    LET validTexts == ValidTexts(texts)
        r == WithRetries(script)
    IN
    IF texts = <<>> \/ validTexts = <<>>
    THEN [ok |-> TRUE, value |-> <<>>, error |-> NoError, last |-> NoError, calls |-> 0]
    ELSE IF r.do = "return"
    THEN [ok |-> TRUE, value |-> EmbeddingResponses(CreateEmbeddings(validTexts)),
          error |-> NoError, last |-> NoError, calls |-> r.calls]
    ELSE [ok |-> FALSE, value |-> <<>>,
          error |-> WrapError(r.err, <<"Failed", "to", "generate", "embeddings">>),
          last |-> r.last, calls |-> r.calls]

\* step 5: await generateEmbeddings(textChunks), then the records or the
\* error response
UploadEmbed ==
    /\ up_pc = "embed"
    /\ \E script \in ProviderScripts :
         LET g == GenerateEmbeddings(up_chunks, script)
             status == EmbeddingFailureStatus(g.error)
         IN
         /\ WithRetries(script).do # "pending"
         /\ up_provErr' = g.last
         /\ IF g.ok
            THEN /\ up_embeddings' = UploadRecords(g.value, up_chunks, up_doc)
                 /\ up_pc' = IF pineconeKey THEN "storePinecone" ELSE "storeDB"
                 /\ UNCHANGED up_resp
            ELSE /\ up_pc' = "done"
                 /\ up_resp' = [Resp(status,
                                     IF status = 429
                                     THEN "OpenAI quota exceeded. Please check billing or try later."
                                     ELSE "Failed to generate embeddings")
                                 EXCEPT !.error = g.error.message]
                 /\ UNCHANGED up_embeddings
    /\ UNCHANGED <<up_user, up_chunks, up_doc>>
    /\ UNCHANGED <<quizVars, callVars, rtVars, storeVars, delVars, chatVars>>

\* UploadSuccess with storageMethod left at its initial value 'database'
UploadSuccess_AlwaysDatabase(storageMethod) ==
    [Resp(200, "File processed successfully")
        EXCEPT !.documentId = up_doc,
               !.chunksCreated = Len(up_chunks),
               !.storageMethod = "database"]

\* the success response: res.json({message, data: {documentId, chunksCreated,
\* storageMethod, ...}})
UploadSuccess(storageMethod) ==
    [Resp(200, "File processed successfully")
        EXCEPT !.documentId = up_doc,
               !.chunksCreated = Len(up_chunks),
               !.storageMethod = storageMethod]

\* UploadStorePinecone with an upsert that writes the vectors and then throws
UploadStorePinecone_KeepsOnFailure ==
    /\ up_pc = "storePinecone"
    /\ \E stored \in BOOLEAN :
         IF stored
         THEN /\ pcVectors' = pcVectors \cup PineconeVectorsOf(up_embeddings)
              /\ up_pc' = "done"
              /\ up_resp' = UploadSuccess("pinecone")
         ELSE /\ pcVectors' = pcVectors \cup PineconeVectorsOf(up_embeddings)
              /\ up_pc' = "storeDB"
              /\ UNCHANGED up_resp
    /\ UNCHANGED <<up_user, up_chunks, up_doc, up_provErr, up_embeddings>>
    /\ UNCHANGED <<pineconeKey, documents, chunks, createdBy, nextDocId, chats, nextChatId>>
    /\ UNCHANGED <<quizVars, callVars, rtVars, delVars, chatVars>>

\* step 6 with PINECONE_API_KEY set: storeEmbeddings resolves, or it
\* throws and the route falls back to the database
UploadStorePinecone ==
    /\ up_pc = "storePinecone"
    /\ \E stored \in BOOLEAN :
         IF stored
         THEN /\ pcVectors' = pcVectors \cup PineconeVectorsOf(up_embeddings)
              /\ up_pc' = "done"
              /\ up_resp' = UploadSuccess("pinecone")
         ELSE /\ up_pc' = "storeDB"
              /\ UNCHANGED <<pcVectors, up_resp>>
    /\ UNCHANGED <<up_user, up_chunks, up_doc, up_provErr, up_embeddings>>
    /\ UNCHANGED <<pineconeKey, documents, chunks, createdBy, nextDocId, chats, nextChatId>>
    /\ UNCHANGED <<quizVars, callVars, rtVars, delVars, chatVars>>

\* step 6, the database: storeEmbeddingsInDB resolves (the document row the
\* chunks reference must exist), or it throws
UploadStoreDB ==
    /\ up_pc = "storeDB"
    /\ \E stored \in BOOLEAN :
         IF stored /\ up_doc \in DocumentIds
         THEN /\ chunks' = chunks \cup ChunkRowsOf(up_embeddings)
              /\ up_resp' = UploadSuccess("database")
         ELSE /\ up_resp' = [Resp(500, "Failed to store embeddings")
                               EXCEPT !.error = <<"Failed", "to", "store", "embeddings", "in", "database">>]
              /\ UNCHANGED chunks
    /\ up_pc' = "done"
    /\ UNCHANGED <<up_user, up_chunks, up_doc, up_provErr, up_embeddings>>
    /\ UNCHANGED <<pineconeKey, documents, pcVectors, createdBy, nextDocId, chats, nextChatId>>
    /\ UNCHANGED <<quizVars, callVars, rtVars, delVars, chatVars>>

\* the handler has answered and returns: its locals are gone
UploadReturn ==
    /\ up_pc = "done"
    /\ up_pc' = "idle"
    /\ up_user' = "alice"
    /\ up_chunks' = <<>>
    /\ up_doc' = 0
    /\ up_provErr' = NoError
    /\ up_embeddings' = <<>>
    /\ up_resp' = NoResp
    /\ UNCHANGED <<quizVars, callVars, rtVars, storeVars, delVars, chatVars>>

-----------------------------------------------------------------------------
(* DELETE /api/upload/documents/:id *)

\* FindDocument without the owner in the where clause
FindDocument_AnyOwner(docId, userId) == \E d \in documents : d.id = docId

\* prisma.document.findFirst({where: {id, userId}}) finds a document
FindDocument(docId, userId) == [id |-> docId, userId |-> userId] \in documents

\* the ownership check of the delete route
DeleteStart(user, docId) ==
    /\ del_pc = "idle"
    /\ del_user' = user
    /\ del_doc' = docId
    /\ IF FindDocument(docId, user)
       THEN /\ del_pc' = "vectors"
            /\ del_resp' = NoResp
       ELSE /\ del_pc' = "done"
            /\ del_resp' = Resp(404, "Document not found or access denied")
    /\ UNCHANGED <<quizVars, callVars, rtVars, storeVars, upVars, chatVars>>

\* the delete of the embeddings, from the remote index when PINECONE_API_KEY
\* is set and from the chunks table otherwise; a failure is logged only
DeleteVectors ==
    /\ del_pc = "vectors"
    /\ \E deleted \in BOOLEAN :
         IF ~deleted
         THEN UNCHANGED <<pcVectors, chunks>>
         ELSE IF pineconeKey
         THEN /\ pcVectors' = {v \in pcVectors : ~MetadataEq(v, "documentId", del_doc)}
              /\ UNCHANGED chunks
         ELSE /\ chunks' = {c \in chunks : c.documentId # del_doc}
              /\ UNCHANGED pcVectors
    /\ del_pc' = "document"
    /\ UNCHANGED <<del_user, del_doc, del_resp>>
    /\ UNCHANGED <<pineconeKey, documents, createdBy, nextDocId, chats, nextChatId>>
    /\ UNCHANGED <<quizVars, callVars, rtVars, upVars, chatVars>>

\* prisma.document.delete: the document row goes and its chunk rows with
\* it (cascade), or the call throws
DeleteDocument ==
    /\ del_pc = "document"
    /\ \E deleted \in BOOLEAN :
         IF deleted /\ del_doc \in DocumentIds
         THEN /\ documents' = {d \in documents : d.id # del_doc}
              /\ chunks' = {c \in chunks : c.documentId # del_doc}
              /\ del_resp' = Resp(200, "Document deleted successfully")
         ELSE /\ del_resp' = Resp(500, "Internal server error")
              /\ UNCHANGED <<documents, chunks>>
    /\ del_pc' = "done"
    /\ UNCHANGED <<del_user, del_doc>>
    /\ UNCHANGED <<pineconeKey, pcVectors, createdBy, nextDocId, chats, nextChatId>>
    /\ UNCHANGED <<quizVars, callVars, rtVars, upVars, chatVars>>

\* the handler has answered and returns: its locals are gone
DeleteReturn ==
    /\ del_pc = "done"
    /\ del_pc' = "idle"
    /\ del_user' = "alice"
    /\ del_doc' = 0
    /\ del_resp' = NoResp
    /\ UNCHANGED <<quizVars, callVars, rtVars, storeVars, upVars, chatVars>>

-----------------------------------------------------------------------------
(* Similarity search *)

TopK == 5
ContextLimit == 5
ThresholdNum == 7
ThresholdDen == 10
ExcerptLen == 100

Dot(x, y) == x[1] * y[1] + x[2] * y[2]

\* the cosine similarity of q and v, dot / sqrt(norm2), kept exact as the
\* pair of the dot product and the product of the squared magnitudes
Cosine(q, v) == [dot |-> Dot(q, v), norm2 |-> Dot(q, q) * Dot(v, v)]

\* s > t for two cosine similarities
ScoreGT(s, t) ==
    IF s.dot >= 0 /\ t.dot >= 0 THEN s.dot * s.dot * t.norm2 > t.dot * t.dot * s.norm2
    ELSE IF s.dot < 0 /\ t.dot < 0 THEN s.dot * s.dot * t.norm2 < t.dot * t.dot * s.norm2
    ELSE s.dot >= 0 /\ t.dot < 0

\* result.score > 0.7
AboveThreshold(s) ==
    s.dot > 0 /\ ThresholdDen * ThresholdDen * s.dot * s.dot > ThresholdNum * ThresholdNum * s.norm2

\* TopRanked in ascending order of the score
RECURSIVE TopRanked_Ascending(_, _)
TopRanked_Ascending(S, k) ==
    IF k = 0 \/ S = {} THEN {<<>>}
    ELSE UNION { { <<x>> \o rest : rest \in TopRanked_Ascending(S \ {x}, k - 1) } :
                 x \in {y \in S : \A z \in S : ~ScoreGT(y.score, z.score)} }

\* ORDER BY score DESC LIMIT k over a set of scored results: every order
\* the ties allow
RECURSIVE TopRanked(_, _)
TopRanked(S, k) ==
    IF k = 0 \/ S = {} THEN {<<>>}
    ELSE UNION { { <<x>> \o rest : rest \in TopRanked(S \ {x}, k - 1) } :
                 x \in {y \in S : \A z \in S : ~ScoreGT(z.score, y.score)} }

\* SearchSimilarEmbeddingsInDB without the WHERE clause on the owner
SearchSimilarEmbeddingsInDB_NoOwner(queryEmbedding, topK, userId) ==
    LET rows == { [id |-> c.id, text |-> c.text,
                   score |-> Cosine(queryEmbedding, c.embedding),
                   documentId |-> c.documentId] :
                  c \in { c \in chunks : \E d \in documents : d.id = c.documentId } }
    IN TopRanked(rows, topK)

\* searchSimilarEmbeddingsInDB: chunks joined with their documents, of the
\* owner userId when one is given ("" stands for none), scored by cosine
\* similarity, the topK best
SearchSimilarEmbeddingsInDB(queryEmbedding, topK, userId) ==
    LET rows == { [id |-> c.id, text |-> c.text,
                   score |-> Cosine(queryEmbedding, c.embedding),
                   documentId |-> c.documentId] :
                  c \in { c \in chunks :
                            \E d \in documents :
                                /\ d.id = c.documentId
                                /\ (userId # "" => d.userId = userId) } }
    IN TopRanked(rows, topK)

\* searchSimilarEmbeddings: index.query with the filter {userId: {$eq: userId}}
\* when a userId is given, the topK best matches
SearchSimilarEmbeddings(queryEmbedding, topK, userId) ==
    LET matches == { [id |-> v.id, text |-> v.metadata.text,
                      score |-> Cosine(queryEmbedding, v.values),
                      documentId |-> v.metadata.documentId] :
                     v \in { v \in pcVectors :
                               userId # "" => MetadataEq(v, "userId", userId) } }
    IN TopRanked(matches, topK)

-----------------------------------------------------------------------------
(* POST /api/chat *)

MaxQueryLength == 1000

\* a query of n characters: the text of TextA, then characters the
\* embedding of the model does not count
QueryOfLength(n) == [i \in 1..n |-> IF i <= Len(TextA) THEN TextA[i] ELSE "#"]

\* req.body.query: two short queries, a blank one, an absent one (the empty
\* text), and queries at the limit of the length and one character past it
ChatQueries ==
    {TextA, TextB, <<" ">>, <<>>,
     QueryOfLength(MaxQueryLength), QueryOfLength(MaxQueryLength + 1)}

ChatResp(status, message) ==
    [status |-> status, message |-> message, answer |-> <<>>,
     references |-> <<>>, chatId |-> 0]

NoChatResp == ChatResp(0, "")

\* array.slice(0, n) and string.substring(0, n)
Prefix(s, n) == SubSeq(s, 1, IF Len(s) < n THEN Len(s) ELSE n)

\* Relevant keeping the results at the threshold too (score >= 0.7)
Relevant_AtThreshold(searchResults) ==
    Prefix(SelectSeq(searchResults,
                     LAMBDA r : r.score.dot > 0 /\
                                ThresholdDen * ThresholdDen * r.score.dot * r.score.dot
                                    >= ThresholdNum * ThresholdNum * r.score.norm2),
           ContextLimit)

\* searchResults.filter(result => result.score > 0.7).slice(0, 5)
Relevant(searchResults) ==
    Prefix(SelectSeq(searchResults, LAMBDA r : AboveThreshold(r.score)), ContextLimit)

\* contextChunks: the texts of the relevant results
ContextChunks(searchResults) ==
    [i \in DOMAIN Relevant(searchResults) |-> Relevant(searchResults)[i].text]

\* references: the excerpt and the score of each relevant result
References(searchResults) ==
    [i \in DOMAIN Relevant(searchResults) |->
        [excerpt |-> Prefix(Relevant(searchResults)[i].text, ExcerptLen),
         score |-> Relevant(searchResults)[i].score]]

\* array.join(sep)
RECURSIVE Join(_, _)
Join(list, sep) ==
    IF list = <<>> THEN <<>>
    ELSE IF Len(list) = 1 THEN list[1]
    ELSE list[1] \o sep \o Join(Tail(list), sep)

\* step 4: the system prompt, the instructions around the context
SystemPrompt(context) ==
    <<"You are a helpful study assistant ... Context Information:", "\n">>
        \o context \o <<"\n", "Remember: Only use the context provided above ...">>

\* ChatMessages framing the user turn whatever the context is
ChatMessages_AlwaysFramed(systemPrompt, userQuery, context) ==
    <<[role |-> "system", content |-> systemPrompt],
      [role |-> "user",
       content |-> <<"Context information:", "\n">> \o context
                       \o <<"\n", "\n", "Question: ">> \o userQuery]>>

\* the messages generateChatCompletion(systemPrompt, userQuery, context)
\* sends: the system prompt, then the user turn, framed with the context
\* when context is truthy (a string that is not empty)
ChatMessages(systemPrompt, userQuery, context) ==
    <<[role |-> "system", content |-> systemPrompt],
      [role |-> "user",
       content |-> IF context # <<>>
                   THEN <<"Context information:", "\n">> \o context
                            \o <<"\n", "\n", "Question: ">> \o userQuery
                   ELSE userQuery]>>

\* a call of a service function by the chat handler: the stage it belongs
\* to, whether it resolved and, for a completion, the messages of the request
StageCall(stage, ok, messages) == [stage |-> stage, ok |-> ok, messages |-> messages]

\* ValidateQuery rejecting a query of MaxQueryLength characters too
ValidateQuery_RejectsAtLimit(query) ==
    IF Len(query) = 0 \/ Len(Trim(query)) = 0
    THEN ChatResp(400, "Query is required")
    ELSE IF Len(query) >= MaxQueryLength
    THEN ChatResp(400, "Query is too long. Maximum 1000 characters.")
    ELSE NoChatResp

\* the validation of the query: the rejection, or NoChatResp when the query
\* is valid
ValidateQuery(query) ==
    IF Len(query) = 0 \/ Len(Trim(query)) = 0
    THEN ChatResp(400, "Query is required")
    ELSE IF Len(query) > MaxQueryLength
    THEN ChatResp(400, "Query is too long. Maximum 1000 characters.")
    ELSE NoChatResp

\* the handler up to the validation of the query
ChatStart(user, query) ==
    /\ chat_pc = "idle"
    /\ nextChatId <= MaxChats
    /\ chat_user' = user
    /\ chat_query' = query
    /\ chat_results' = <<>>
    /\ chat_context' = <<>>
    /\ chat_answer' = <<>>
    /\ chat_trace' = <<>>
    /\ chat_resp' = ValidateQuery(query)
    /\ chat_pc' = IF ValidateQuery(query) # NoChatResp THEN "done" ELSE "embed"
    /\ UNCHANGED <<quizVars, callVars, rtVars, storeVars, upVars, delVars>>

\* ChatEmbed going on to the search with a zero embedding when
\* generateEmbedding throws
ChatEmbed_ContinuesOnFailure ==
    /\ chat_pc = "embed"
    /\ \E script \in ProviderScripts :
         LET r == WithRetries(script) IN
         /\ r.do # "pending"
         /\ chat_pc' = "search"
         /\ UNCHANGED chat_resp
         /\ chat_trace' = Append(chat_trace,
                                 StageCall("embed", Len(Trim(chat_query)) > 0 /\ r.do = "return", <<>>))
    /\ UNCHANGED <<chat_user, chat_query, chat_results, chat_context, chat_answer>>
    /\ UNCHANGED <<quizVars, callVars, rtVars, storeVars, upVars, delVars>>

\* step 1: await generateEmbedding(query); the query embedding is
\* EmbedOf(chat_query) from here on
ChatEmbed ==
    /\ chat_pc = "embed"
    /\ \E script \in ProviderScripts :
         LET r == WithRetries(script) IN
         /\ r.do # "pending"
         /\ IF Len(Trim(chat_query)) > 0 /\ r.do = "return"
            THEN /\ chat_pc' = "search"
                 /\ UNCHANGED chat_resp
            ELSE /\ chat_pc' = "done"
                 /\ chat_resp' = ChatResp(500, "Failed to process query")
         /\ chat_trace' = Append(chat_trace,
                                 StageCall("embed", Len(Trim(chat_query)) > 0 /\ r.do = "return", <<>>))
    /\ UNCHANGED <<chat_user, chat_query, chat_results, chat_context, chat_answer>>
    /\ UNCHANGED <<quizVars, callVars, rtVars, storeVars, upVars, delVars>>

\* the store step 2 searches: the remote index when PINECONE_API_KEY is
\* set, the database otherwise
SearchedStore == IF pineconeKey THEN "pinecone" ELSE "database"

\* step 2: the search, scoped to the requester
ChatSearch ==
    /\ chat_pc = "search"
    /\ \/ \E searchResults \in
              IF SearchedStore = "pinecone"
              THEN SearchSimilarEmbeddings(EmbedOf(chat_query), TopK, chat_user)
              ELSE SearchSimilarEmbeddingsInDB(EmbedOf(chat_query), TopK, chat_user) :
            /\ chat_results' = searchResults
            /\ chat_pc' = "complete"
            /\ chat_trace' = Append(chat_trace, StageCall("search", TRUE, <<>>))
            /\ UNCHANGED chat_resp
       \/ /\ chat_pc' = "done"
          /\ chat_resp' = ChatResp(500, "Failed to search knowledge base")
          /\ chat_trace' = Append(chat_trace, StageCall("search", FALSE, <<>>))
          /\ UNCHANGED chat_results
    /\ UNCHANGED <<chat_user, chat_query, chat_context, chat_answer>>
    /\ UNCHANGED <<quizVars, callVars, rtVars, storeVars, upVars, delVars>>

\* what the completion provider answers with
CompletionContents == {<<>>, <<"answer">>}

\* steps 3-5: the context, the prompt and await generateChatCompletion
ChatComplete ==
    /\ chat_pc = "complete"
    /\ \E script \in ProviderScripts, content \in CompletionContents :
         LET r == WithRetries(script) IN
         /\ r.do # "pending"
         /\ IF r.do = "return" /\ content # <<>>
            THEN /\ chat_answer' = Trim(content)
                 /\ chat_pc' = "persist"
                 /\ UNCHANGED chat_resp
            ELSE /\ chat_pc' = "done"
                 /\ chat_resp' = ChatResp(500, "Failed to generate response")
                 /\ UNCHANGED chat_answer
         /\ LET context == Join(ContextChunks(chat_results), <<"\n", "\n">>) IN
            chat_trace' = Append(chat_trace,
                                 StageCall("complete", r.do = "return" /\ content # <<>>,
                                           ChatMessages(SystemPrompt(context), chat_query, context)))
    /\ chat_context' = ContextChunks(chat_results)
    /\ UNCHANGED <<chat_user, chat_query, chat_results>>
    /\ UNCHANGED <<quizVars, callVars, rtVars, storeVars, upVars, delVars>>

\* ChatPersist answering an error when createChatRecord throws
ChatPersist_FailsWithSave ==
    /\ chat_pc = "persist"
    /\ \E saved \in BOOLEAN :
         IF saved
         THEN /\ chats' = chats \cup {[id |-> nextChatId, userId |-> chat_user,
                                        query |-> chat_query, answer |-> chat_answer]}
              /\ nextChatId' = nextChatId + 1
              /\ chat_resp' = [ChatResp(200, "Chat processed successfully")
                                 EXCEPT !.answer = chat_answer,
                                        !.references = References(chat_results),
                                        !.chatId = nextChatId]
         ELSE /\ UNCHANGED <<chats, nextChatId>>
              /\ chat_resp' = ChatResp(500, "Internal server error during chat processing")
    /\ chat_pc' = "done"
    /\ chat_trace' = Append(chat_trace, StageCall("persist", chats' # chats, <<>>))
    /\ UNCHANGED <<chat_user, chat_query, chat_results, chat_context, chat_answer>>
    /\ UNCHANGED <<pineconeKey, documents, chunks, pcVectors, createdBy, nextDocId>>
    /\ UNCHANGED <<quizVars, callVars, rtVars, upVars, delVars>>

\* steps 6-7: await createChatRecord, whose failure is logged only, and
\* the response (chatId 0 stands for 'unknown')
ChatPersist ==
    /\ chat_pc = "persist"
    /\ \E saved \in BOOLEAN :
         /\ IF saved
            THEN /\ chats' = chats \cup {[id |-> nextChatId, userId |-> chat_user,
                                           query |-> chat_query, answer |-> chat_answer]}
                 /\ nextChatId' = nextChatId + 1
            ELSE UNCHANGED <<chats, nextChatId>>
         /\ chat_resp' = [ChatResp(200, "Chat processed successfully")
                            EXCEPT !.answer = chat_answer,
                                   !.references = References(chat_results),
                                   !.chatId = IF saved THEN nextChatId ELSE 0]
         /\ chat_trace' = Append(chat_trace, StageCall("persist", saved, <<>>))
    /\ chat_pc' = "done"
    /\ UNCHANGED <<chat_user, chat_query, chat_results, chat_context, chat_answer>>
    /\ UNCHANGED <<pineconeKey, documents, chunks, pcVectors, createdBy, nextDocId>>
    /\ UNCHANGED <<quizVars, callVars, rtVars, upVars, delVars>>

\* the handler has answered and returns: its locals are gone
ChatReturn ==
    /\ chat_pc = "done"
    /\ chat_pc' = "idle"
    /\ chat_user' = "alice"
    /\ chat_query' = <<>>
    /\ chat_results' = <<>>
    /\ chat_context' = <<>>
    /\ chat_answer' = <<>>
    /\ chat_trace' = <<>>
    /\ chat_resp' = NoChatResp
    /\ UNCHANGED <<quizVars, callVars, rtVars, storeVars, upVars, delVars>>

-----------------------------------------------------------------------------
(* POST /api/quiz *)

MinQuestions == 1
MaxQuestions == 20
OptionCount == 4

QuizResp(status, message) == [status |-> status, message |-> message, questions |-> <<>>]

NoQuizResp == QuizResp(0, "")

\* the questions the completion provider may send: a question is
\* [question, options, correctAnswer], options being an array of items or
\* not an array, correctAnswer a value with its JavaScript type
QuizQuestion(question, optionCount, answerType, answer) ==
    [question |-> question,
     options |-> [isArray |-> TRUE, items |-> Repeat("option", optionCount)],
     correctAnswer |-> [type |-> answerType, value |-> answer]]

QuestionSamples ==
    { QuizQuestion(<<"q">>, OptionCount, "number", 0),
      QuizQuestion(<<"q">>, OptionCount, "number", OptionCount - 1),
      QuizQuestion(<<"q">>, OptionCount, "number", OptionCount + 3),
      QuizQuestion(<<"q">>, OptionCount, "string", 1),
      QuizQuestion(<<"q">>, OptionCount - 1, "number", 0),
      QuizQuestion(<<>>, OptionCount, "number", 0),
      [QuizQuestion(<<"q">>, OptionCount, "number", 0)
          EXCEPT !.options = [isArray |-> FALSE, items |-> <<>>]] }

\* response.choices[0].message.content: absent, a text that is not JSON, or
\* the JSON of an object or of an array of up to MaxAnswered questions
QuizContents ==
    { [kind |-> "none"], [kind |-> "text"], [kind |-> "object"] }
        \cup { [kind |-> "array", items |-> l] : l \in SeqsUpTo(QuestionSamples, MaxAnswered) }

\* GenerateQuizQuestions asking the provider again when the content does
\* not parse
GenerateQuizQuestions_RetriesParse(script, content) ==
    LET r == WithRetries(script) IN
    IF r.do # "return"
    THEN [ok |-> FALSE, value |-> [kind |-> "none"], calls |-> r.calls,
          error |-> WrapError(r.err, <<"Failed", "to", "generate", "quiz", "questions">>)]
    ELSE IF content.kind = "none"
    THEN [ok |-> FALSE, value |-> [kind |-> "none"], calls |-> r.calls,
          error |-> WrapError(MkErr(0, "", <<"No", "quiz", "questions", "generated">>, NoHeader),
                              <<"Failed", "to", "generate", "quiz", "questions">>)]
    ELSE IF content.kind = "text"
    THEN [ok |-> FALSE, value |-> [kind |-> "none"], calls |-> r.calls + 1,
          error |-> WrapError(MkErr(0, "", <<"Failed", "to", "parse", "quiz", "questions">>, NoHeader),
                              <<"Failed", "to", "generate", "quiz", "questions">>)]
    ELSE [ok |-> TRUE, value |-> content, calls |-> r.calls, error |-> NoError]

\* generateQuizQuestions(context, numQuestions) over a script of the
\* provider and the content of its answer: JSON.parse(content), or the
\* error thrown
GenerateQuizQuestions(script, content) ==
    LET r == WithRetries(script) IN
    IF r.do # "return"
    THEN [ok |-> FALSE, value |-> [kind |-> "none"], calls |-> r.calls,
          error |-> WrapError(r.err, <<"Failed", "to", "generate", "quiz", "questions">>)]
    ELSE IF content.kind = "none"
    THEN [ok |-> FALSE, value |-> [kind |-> "none"], calls |-> r.calls,
          error |-> WrapError(MkErr(0, "", <<"No", "quiz", "questions", "generated">>, NoHeader),
                              <<"Failed", "to", "generate", "quiz", "questions">>)]
    ELSE IF content.kind = "text"
    THEN [ok |-> FALSE, value |-> [kind |-> "none"], calls |-> r.calls,
          error |-> WrapError(MkErr(0, "", <<"Failed", "to", "parse", "quiz", "questions">>, NoHeader),
                              <<"Failed", "to", "generate", "quiz", "questions">>)]
    ELSE [ok |-> TRUE, value |-> content, calls |-> r.calls, error |-> NoError]

\* q.question && q.options && Array.isArray(q.options) &&
\* q.options.length === 4 && typeof q.correctAnswer === 'number'
IsValidQuestion(q) ==
    /\ q.question # <<>>
    /\ q.options.isArray
    /\ Len(q.options.items) = OptionCount
    /\ q.correctAnswer.type = "number"

\* quizQuestions.filter(valid).slice(0, numQuestions)
ValidatedQuestions(quizQuestions, numQuestions) ==
    Prefix(SelectSeq(quizQuestions, IsValidQuestion), numQuestions)

\* the validation of the body and the ownership check
QuizStart(user, documentId, numQuestions) ==
    /\ quiz_pc = "idle"
    /\ quiz_user' = user
    /\ quiz_doc' = documentId
    /\ quiz_num' = numQuestions
    /\ quiz_chunks' = {}
    /\ quiz_calls' = 0
    /\ IF documentId = 0
       THEN /\ quiz_pc' = "done"
            /\ quiz_resp' = QuizResp(400, "Document ID is required")
       ELSE IF numQuestions = 0 \/ numQuestions < MinQuestions \/ numQuestions > MaxQuestions
       THEN /\ quiz_pc' = "done"
            /\ quiz_resp' = QuizResp(400, "Number of questions must be between 1 and 20")
       ELSE IF ~FindDocument(documentId, user)
       THEN /\ quiz_pc' = "done"
            /\ quiz_resp' = QuizResp(404, "Document not found or access denied")
       ELSE /\ quiz_pc' = "chunks"
            /\ quiz_resp' = NoQuizResp
    /\ UNCHANGED <<rtVars, storeVars, upVars, delVars, chatVars, callVars>>

\* steps 1-2: getChunksByDocumentId, which may throw, and the context of
\* the first 10 chunks (a chunk text is never empty, so neither is the
\* context of one chunk or more)
QuizChunks ==
    /\ quiz_pc = "chunks"
    /\ \/ LET documentChunks == {c \in chunks : c.documentId = quiz_doc} IN
          /\ quiz_chunks' = {c.id : c \in documentChunks}
          /\ IF documentChunks = {}
             THEN /\ quiz_pc' = "done"
                  /\ quiz_resp' = QuizResp(400, "No content available for this document to generate quiz questions")
             ELSE /\ quiz_pc' = "generate"
                  /\ UNCHANGED quiz_resp
       \/ /\ quiz_pc' = "done"
          /\ quiz_resp' = QuizResp(500, "Failed to fetch document content")
          /\ UNCHANGED quiz_chunks
    /\ UNCHANGED <<quiz_user, quiz_doc, quiz_num, quiz_calls>>
    /\ UNCHANGED <<rtVars, storeVars, upVars, delVars, chatVars, callVars>>

\* steps 3-5: await generateQuizQuestions, the validation of what it
\* returned, and the response
QuizGenerate ==
    /\ quiz_pc = "generate"
    /\ \E script \in ProviderScripts :
       \E content \in IF WithRetries(script).do = "return"
                      THEN QuizContents
                      ELSE {[kind |-> "none"]} :
         LET g == GenerateQuizQuestions(script, content)
             validatedQuestions ==
                 IF g.ok /\ g.value.kind = "array"
                 THEN ValidatedQuestions(g.value.items, quiz_num)
                 ELSE <<>>
         IN
         /\ WithRetries(script).do # "pending"
         /\ quiz_calls' = g.calls
         /\ quiz_resp' =
              IF ~g.ok
              THEN QuizResp(500, "Failed to generate quiz questions")
              ELSE IF g.value.kind # "array" \/ g.value.items = <<>>
              THEN QuizResp(500, "Failed to generate valid quiz questions")
              ELSE IF validatedQuestions = <<>>
              THEN QuizResp(500, "Generated quiz questions are not in the correct format")
              ELSE [QuizResp(200, "Quiz with N questions generated successfully")
                      EXCEPT !.questions = validatedQuestions]
    /\ quiz_pc' = "done"
    /\ UNCHANGED <<quiz_user, quiz_doc, quiz_num, quiz_chunks>>
    /\ UNCHANGED <<rtVars, storeVars, upVars, delVars, chatVars, callVars>>

\* the handler has answered and returns: its locals are gone
QuizReturn ==
    /\ quiz_pc = "done"
    /\ quiz_pc' = "idle"
    /\ quiz_user' = "alice"
    /\ quiz_doc' = 0
    /\ quiz_num' = 0
    /\ quiz_chunks' = {}
    /\ quiz_calls' = 0
    /\ quiz_resp' = NoQuizResp
    /\ UNCHANGED <<rtVars, storeVars, upVars, delVars, chatVars, callVars>>

-----------------------------------------------------------------------------
(* POST /api/quiz/validate *)

\* a JSON value with its JavaScript type: === holds between two values of
\* the same type and the same value only
Num(n) == [type |-> "number", value |-> n]
Str(n) == [type |-> "string", value |-> n]

\* a JSON array of the given items, and a body field that is not an array
ArrayOf(items) == [isArray |-> TRUE, items |-> items]
NotArray == [isArray |-> FALSE, items |-> <<>>]

ValidateResp(status, message) ==
    [status |-> status, message |-> message, hasData |-> FALSE,
     score |-> 0, totalQuestions |-> 0, percentage |-> 0, percentageIsNaN |-> FALSE,
     results |-> <<>>]

\* Math.round(x) for x = num / den >= 0: floor(x + 0.5)
RoundDiv(num, den) == (2 * num + den) \div (2 * den)

\* ValidateQuizAnswers with the percentage truncated instead of rounded
ValidateQuizAnswers_Truncated(answers, questions) ==
    IF ~answers.isArray \/ ~questions.isArray
    THEN ValidateResp(400, "Invalid answers or questions format")
    ELSE IF Len(answers.items) # Len(questions.items)
    THEN ValidateResp(400, "Number of answers must match number of questions")
    ELSE LET results == [index \in DOMAIN answers.items |->
                            [questionIndex |-> index - 1,
                             userAnswer |-> answers.items[index],
                             correctAnswer |-> questions.items[index].correctAnswer,
                             isCorrect |-> answers.items[index] = questions.items[index].correctAnswer]]
             score == Cardinality({i \in DOMAIN results : results[i].isCorrect})
             n == Len(answers.items)
         IN [ValidateResp(200, "Quiz answers validated successfully")
                EXCEPT !.hasData = TRUE,
                       !.score = score,
                       !.totalQuestions = n,
                       !.percentage = IF n = 0 THEN 0 ELSE (score * 100) \div n,
                       !.percentageIsNaN = (n = 0),
                       !.results = results]

\* the handler of POST /api/quiz/validate on the body {answers, questions}:
\* the two format checks, then one result per answer, the score and the
\* percentage (0 / 0 is NaN); the explanation of a result plays no part
ValidateQuizAnswers(answers, questions) ==
    IF ~answers.isArray \/ ~questions.isArray
    THEN ValidateResp(400, "Invalid answers or questions format")
    ELSE IF Len(answers.items) # Len(questions.items)
    THEN ValidateResp(400, "Number of answers must match number of questions")
    ELSE LET results == [index \in DOMAIN answers.items |->
                            [questionIndex |-> index - 1,
                             userAnswer |-> answers.items[index],
                             correctAnswer |-> questions.items[index].correctAnswer,
                             isCorrect |-> answers.items[index] = questions.items[index].correctAnswer]]
             score == Cardinality({i \in DOMAIN results : results[i].isCorrect})
             n == Len(answers.items)
         IN [ValidateResp(200, "Quiz answers validated successfully")
                EXCEPT !.hasData = TRUE,
                       !.score = score,
                       !.totalQuestions = n,
                       !.percentage = IF n = 0 THEN 0 ELSE RoundDiv(score * 100, n),
                       !.percentageIsNaN = (n = 0),
                       !.results = results]

-----------------------------------------------------------------------------
(* Calls of the service functions *)

\* a call has returned or thrown: its caller goes on
CallReturn ==
    /\ call_pc = "returned"
    /\ call_pc' = "idle"
    /\ call_fn' = ""
    /\ call_args' = <<>>
    /\ call_result' = <<>>
    /\ UNCHANGED <<rtVars, storeVars, upVars, delVars, chatVars, quizVars>>

\* searchSimilarEmbeddingsInDB(queryEmbedding, topK, userId): the rows of
\* the query, or the error thrown when the query fails
CallSearchSimilarEmbeddingsInDB(queryEmbedding, topK, userId) ==
    /\ call_pc = "idle"
    /\ call_pc' = "returned"
    /\ call_fn' = "searchSimilarEmbeddingsInDB"
    /\ call_args' = [queryEmbedding |-> queryEmbedding, topK |-> topK, userId |-> userId]
    /\ \/ \E results \in SearchSimilarEmbeddingsInDB(queryEmbedding, topK, userId) :
            call_result' = [ok |-> TRUE, value |-> results]
       \/ call_result' = [ok |-> FALSE, value |-> <<>>]
    /\ UNCHANGED <<rtVars, storeVars, upVars, delVars, chatVars, quizVars>>

\* generateEmbedding(text) over a script of the provider: a blank text
\* throws before any request, and every error is rethrown with its message
\* alone
GenerateEmbedding(text, script) ==
    LET r == WithRetries(script) IN
    IF Trim(text) = <<>>
    THEN [ok |-> FALSE, value |-> <<>>,
          error |-> WrapError(MkErr(0, "", <<"Text", "cannot", "be", "empty">>, NoHeader),
                              <<"Failed", "to", "generate", "embedding">>),
          last |-> NoError, calls |-> 0]
    ELSE IF r.do = "return"
    THEN [ok |-> TRUE, value |-> <<[embedding |-> CreateEmbeddings(<<text>>)[1].embedding]>>,
          error |-> NoError, last |-> NoError, calls |-> r.calls]
    ELSE [ok |-> FALSE, value |-> <<>>,
          error |-> WrapError(r.err, <<"Failed", "to", "generate", "embedding">>),
          last |-> r.last, calls |-> r.calls]

\* a call of generateEmbeddings(texts)
CallGenerateEmbeddings(texts, script) ==
    /\ call_pc = "idle"
    /\ WithRetries(script).do # "pending"
    /\ call_pc' = "returned"
    /\ call_fn' = "generateEmbeddings"
    /\ call_args' = [texts |-> texts]
    /\ call_result' = GenerateEmbeddings(texts, script)
    /\ UNCHANGED <<rtVars, storeVars, upVars, delVars, chatVars, quizVars>>

\* a call of generateEmbedding(text)
CallGenerateEmbedding(text, script) ==
    /\ call_pc = "idle"
    /\ WithRetries(script).do # "pending"
    /\ call_pc' = "returned"
    /\ call_fn' = "generateEmbedding"
    /\ call_args' = [texts |-> <<text>>]
    /\ call_result' = GenerateEmbedding(text, script)
    /\ UNCHANGED <<rtVars, storeVars, upVars, delVars, chatVars, quizVars>>

\* a request POST /api/quiz/validate and its response
CallValidateQuizAnswers(answers, questions) ==
    /\ call_pc = "idle"
    /\ call_pc' = "returned"
    /\ call_fn' = "validateQuizAnswers"
    /\ call_args' = [answers |-> answers, questions |-> questions]
    /\ call_result' = ValidateQuizAnswers(answers, questions)
    /\ UNCHANGED <<rtVars, storeVars, upVars, delVars, chatVars, quizVars>>

\* a call of splitTextIntoChunks(text, maxTokens)
CallSplitTextIntoChunks(text, maxTokens) ==
    /\ call_pc = "idle"
    /\ call_pc' = "returned"
    /\ call_fn' = "splitTextIntoChunks"
    /\ call_args' = [text |-> text, maxTokens |-> maxTokens]
    /\ call_result' = [ok |-> TRUE, value |-> SplitTextIntoChunks(text, maxTokens)]
    /\ UNCHANGED <<rtVars, storeVars, upVars, delVars, chatVars, quizVars>>

\* a call of generateQuizQuestions(context, numQuestions), over a script of
\* the provider and the content of its answer
CallGenerateQuizQuestions(script, content) ==
    /\ call_pc = "idle"
    /\ WithRetries(script).do # "pending"
    /\ call_pc' = "returned"
    /\ call_fn' = "generateQuizQuestions"
    /\ call_args' = [script |-> script, content |-> content]
    /\ call_result' = GenerateQuizQuestions(script, content)
    /\ UNCHANGED <<rtVars, storeVars, upVars, delVars, chatVars, quizVars>>

-----------------------------------------------------------------------------
(* Specifications *)

\* no upload or delete request is in flight
HandlersIdle ==
    /\ up_pc = "idle"
    /\ up_user = "alice"
    /\ up_chunks = <<>>
    /\ up_doc = 0
    /\ up_provErr = NoError
    /\ up_embeddings = <<>>
    /\ up_resp = NoResp
    /\ del_pc = "idle"
    /\ del_user = "alice"
    /\ del_doc = 0
    /\ del_resp = NoResp

\* no quiz request is in flight
QuizIdle ==
    /\ quiz_pc = "idle"
    /\ quiz_user = "alice"
    /\ quiz_doc = 0
    /\ quiz_num = 0
    /\ quiz_chunks = {}
    /\ quiz_calls = 0
    /\ quiz_resp = NoQuizResp

\* no service function is being called
CallInit ==
    /\ call_pc = "idle"
    /\ call_fn = ""
    /\ call_args = <<>>
    /\ call_result = <<>>

\* the stores are empty and no upload or delete request is in flight
StoresInit ==
    /\ CallInit
    /\ pineconeKey \in BOOLEAN
    /\ documents = {}
    /\ chunks = {}
    /\ pcVectors = {}
    /\ createdBy = <<>>
    /\ nextDocId = 1
    /\ chats = {}
    /\ nextChatId = 1
    /\ HandlersIdle
    /\ QuizIdle

\* no chat request is in flight
ChatIdle ==
    /\ chat_pc = "idle"
    /\ chat_user = "alice"
    /\ chat_query = <<>>
    /\ chat_results = <<>>
    /\ chat_context = <<>>
    /\ chat_answer = <<>>
    /\ chat_trace = <<>>
    /\ chat_resp = NoChatResp

SysInit == StoresInit /\ ChatIdle

Init == RtInit /\ SysInit

\* ingestion and deletion requests, interleaved freely
Next ==
    \/ \E user \in Users, file \in Files : UploadStart(user, file)
    \/ UploadEmbed
    \/ UploadStorePinecone
    \/ UploadStoreDB
    \/ UploadReturn
    \/ \E user \in Users, docId \in 1..MaxDocs : DeleteStart(user, docId)
    \/ DeleteVectors
    \/ DeleteDocument
    \/ DeleteReturn

Spec == Init /\ [][Next]_vars

\* no request is in flight and no handler holds locals
AllIdle == up_pc = "idle" /\ del_pc = "idle" /\ chat_pc = "idle"

\* ingestion, deletion and query requests served one at a time
ChatNext ==
    \/ /\ AllIdle
       /\ \E user \in Users, file \in Files : UploadStart(user, file)
    \/ UploadEmbed
    \/ UploadStorePinecone
    \/ UploadStoreDB
    \/ UploadReturn
    \/ /\ AllIdle
       /\ \E user \in Users, docId \in 1..MaxDocs : DeleteStart(user, docId)
    \/ DeleteVectors
    \/ DeleteDocument
    \/ DeleteReturn
    \/ /\ AllIdle
       /\ \E user \in Users, query \in ChatQueries : ChatStart(user, query)
    \/ ChatEmbed
    \/ ChatSearch
    \/ ChatComplete
    \/ ChatPersist
    \/ ChatReturn

SpecChat == Init /\ [][ChatNext]_vars

\* a score given in hundredths, as a cosine similarity of the model
ScoreOf(hundredths) == [dot |-> hundredths, norm2 |-> 10000]

ScoreSamples == {ScoreOf(85), ScoreOf(72), ScoreOf(70), ScoreOf(69), ScoreOf(50)}

\* searchResults of the given scores, the i-th with a text of i letters
SearchResultsOf(scores) ==
    [i \in DOMAIN scores |->
        [id |-> ChunkId(1, i), text |-> Repeat("a", i), score |-> scores[i],
         documentId |-> 1]]

\* the search results step 3 is run on: every list of up to MaxResults
\* results over the sample scores, and the lists of ContextLimit + 2 results
\* with scores above and at the threshold
SearchResultLists ==
    { SearchResultsOf(s) : s \in SeqsUpTo(ScoreSamples, MaxResults) }
        \cup { SearchResultsOf(s) : s \in [1..(ContextLimit + 2) -> {ScoreOf(85), ScoreOf(70)}] }

\* the chat handler at step 3, on any of the search results
ContextInit ==
    /\ RtInit
    /\ StoresInit
    /\ chat_pc = "complete"
    /\ chat_user = "alice"
    /\ chat_query = TextA
    /\ chat_results \in SearchResultLists
    /\ chat_context = <<>>
    /\ chat_answer = <<>>
    /\ chat_trace = <<StageCall("embed", TRUE, <<>>), StageCall("search", TRUE, <<>>)>>
    /\ chat_resp = NoChatResp

\* steps 3-7 of the chat handler
ContextNext ==
    \/ ChatComplete
    \/ ChatPersist
    \/ ChatReturn

SpecContext == ContextInit /\ [][ContextNext]_vars

\* the embeddings of the stored chunks and of the queries of SpecSearch:
\* (1, 0), (0, 1) and (0.9, 0.1) in tenths, and (0.5, 0), as similar to any
\* query as (1, 0) is
StoredVectors == {<<10, 0>>, <<0, 10>>, <<9, 1>>, <<5, 0>>}
QueryVectors == {<<10, 0>>, <<0, 10>>, <<1, 1>>}

\* the chunk rows of a document, of the given embeddings
RowsOf(docId, embeddings) ==
    { [id |-> ChunkId(docId, i), documentId |-> docId, text |-> TextA,
       embedding |-> embeddings[i]] : i \in DOMAIN embeddings }

\* the database after two ingestions: a document of alice with up to
\* MaxRows chunks and a document of bob with at most one
SearchInit ==
    /\ RtInit
    /\ CallInit
    /\ HandlersIdle
    /\ QuizIdle
    /\ ChatIdle
    /\ pineconeKey = FALSE
    /\ documents = {[id |-> 1, userId |-> "alice"], [id |-> 2, userId |-> "bob"]}
    /\ createdBy = <<"alice", "bob">>
    /\ nextDocId = 3
    /\ \E mine \in SeqsUpTo(StoredVectors, MaxRows), others \in SeqsUpTo(StoredVectors, 1) :
          chunks = RowsOf(1, mine) \cup RowsOf(2, others)
    /\ pcVectors = {}
    /\ chats = {}
    /\ nextChatId = 1

\* searches of the database, with and without an owner ("" is none)
SearchNext ==
    \/ \E queryEmbedding \in QueryVectors, topK \in 1..MaxTopK, userId \in Users \cup {""} :
          CallSearchSimilarEmbeddingsInDB(queryEmbedding, topK, userId)
    \/ CallReturn

SpecSearch == SearchInit /\ [][SearchNext]_vars

\* the texts the embedding functions are called with: two texts, a blank
\* one and the empty one
EmbedTexts == {TextA, TextB, <<" ">>, <<>>}

\* calls of the two embedding functions
EmbedNext ==
    \/ \E texts \in SeqsUpTo(EmbedTexts, MaxChunks), script \in ProviderScripts :
          CallGenerateEmbeddings(texts, script)
    \/ \E text \in EmbedTexts, script \in ProviderScripts :
          CallGenerateEmbedding(text, script)
    \/ CallReturn

SpecEmbed == Init /\ [][EmbedNext]_vars

\* the bodies of the quiz requests: numQuestions absent (0), at the two
\* limits, one past the upper limit, and 2
QuizNumbers == {0, MinQuestions, 2, MaxQuestions, MaxQuestions + 1}

\* ingestion, deletion and quiz requests served one at a time; a request
\* may name a document id that was never given out
QuizNext ==
    \/ /\ AllIdle /\ quiz_pc = "idle"
       /\ \E user \in Users, file \in Files : UploadStart(user, file)
    \/ UploadEmbed
    \/ UploadStorePinecone
    \/ UploadStoreDB
    \/ UploadReturn
    \/ /\ AllIdle /\ quiz_pc = "idle"
       /\ \E user \in Users, docId \in 1..(MaxDocs + 1) : DeleteStart(user, docId)
    \/ DeleteVectors
    \/ DeleteDocument
    \/ DeleteReturn
    \/ /\ AllIdle
       /\ \E user \in Users, documentId \in 0..(MaxDocs + 1), numQuestions \in QuizNumbers :
             QuizStart(user, documentId, numQuestions)
    \/ QuizChunks
    \/ QuizGenerate
    \/ QuizReturn

SpecQuiz == Init /\ [][QuizNext]_vars

\* the answers of a validate request: option indices as numbers, and one
\* index sent as a string
AnswerValues == {Num(0), Num(1), Num(2), Str(1)}

\* a question of the given correct answer
QuestionOf(correct) == QuizQuestion(<<"q">>, OptionCount, "number", correct)

QuestionsOf(correct) == [i \in DOMAIN correct |-> QuestionOf(correct[i])]

\* the bodies of the validate requests: every pair of up to MaxValidated
\* answers and questions, lists of 5 and of 8 (5 answers against the correct
\* answers 0 1 0 1 3; 8 answers of which 1, 3 or 8 are right, where the
\* percentage falls on a half), and fields that are not arrays
ValidateBodies ==
    { [answers |-> ArrayOf(a), questions |-> ArrayOf(QuestionsOf(c))] :
        a \in SeqsUpTo(AnswerValues, MaxValidated), c \in SeqsUpTo({0, 1, 2}, MaxValidated) }
    \cup
    { [answers |-> ArrayOf(a), questions |-> ArrayOf(QuestionsOf(<<0, 1, 0, 1, 3>>))] :
        a \in { <<Num(0), Num(1), Num(2), Num(1), Num(3)>>,
                <<Num(0), Num(1), Num(0), Num(1), Num(3)>>,
                <<Num(1), Num(0), Num(1), Num(0), Num(0)>> } }
    \cup
    { [answers |-> ArrayOf([i \in 1..8 |-> Num(IF i <= k THEN 0 ELSE 1)]),
       questions |-> ArrayOf(QuestionsOf([i \in 1..8 |-> 0]))] : k \in {1, 3, 8} }
    \cup
    { [answers |-> NotArray, questions |-> ArrayOf(<<>>)],
      [answers |-> ArrayOf(<<Num(0)>>), questions |-> NotArray] }

\* validate requests, one at a time
ValidateNext ==
    \/ \E body \in ValidateBodies : CallValidateQuizAnswers(body.answers, body.questions)
    \/ CallReturn

SpecValidate == Init /\ [][ValidateNext]_vars

\* the texts splitTextIntoChunks is called with: every text of up to
\* MaxTextLen characters over two letters, the space and the full stop, and
\* texts with the other terminators
SplitTexts ==
    SeqsUpTo({"a", "b", " ", "."}, MaxTextLen)
        \cup { <<"a", "!", "?", "b">>, <<"a", "?", " ", "b", "!">>, <<"?", "!", " ">>,
               <<"a", "a", "a", "!", "b", "b", "?", "a">> }

\* the text functions read no store and no configuration
SplitInit == Init /\ pineconeKey = FALSE

\* calls of splitTextIntoChunks with limits from 1 to MaxTokensLimit
SplitNext ==
    \/ \E text \in SplitTexts, maxTokens \in 1..MaxTokensLimit :
          CallSplitTextIntoChunks(text, maxTokens)
    \/ CallReturn

SpecSplit == SplitInit /\ [][SplitNext]_vars

\* the provider over one call of generateQuizQuestions: the scripts of the
\* flows, and the same scripts with one more answer ready should the
\* provider be asked again
QuizGenScripts == ProviderScripts \cup { s \o <<Resolves>> : s \in ProviderScripts }

\* calls of generateQuizQuestions
QuizGenNext ==
    \/ \E script \in QuizGenScripts, content \in QuizContents :
          CallGenerateQuizQuestions(script, content)
    \/ CallReturn

SpecQuizGen == Init /\ [][QuizGenNext]_vars

RetryNext == RtNext /\ UNCHANGED <<storeVars, upVars, delVars, chatVars, callVars, quizVars>>

SpecRetry == Init /\ [][RetryNext]_vars

\* withRetries reads no configuration
RetryLiveInit == Init /\ pineconeKey = FALSE

\* one iteration of the loop: fn() is invoked and settles, and the delay of
\* a retry elapses
RetryIteration ==
    (RtInvokeOk \/ RtInvokeFail)
        /\ UNCHANGED <<storeVars, upVars, delVars, chatVars, callVars, quizVars>>

\* one withRetries call after the other, every invocation of fn() and every
\* delay completing
SpecRetryLive == RetryLiveInit /\ [][RetryNext]_vars /\ WF_vars(RetryIteration)

-----------------------------------------------------------------------------
(* Properties of withRetries, checked under SpecRetry *)

\* the classes of section 4.5, stated on the error alone
IsRetryableClass(err) ==
    /\ ~IsQuotaError(err)
    /\ (err.status = 429 \/ (err.status >= 500 /\ err.status < 600))

IsOtherClass(err) ==
    /\ ~IsQuotaError(err)
    /\ err.status # 429
    /\ ~(err.status >= 500 /\ err.status < 600)

\* C1: a quota signal (by code or by message, under any status) on any
\* attempt is the last invocation of the call: the call has thrown the
\* quota-tagged error (status 429, code insufficient_quota) and fn() was
\* invoked exactly as many times as the position of the signal, so exactly
\* once when it is the first failure.
C1_QuotaFailsAtOnce ==
    \A i \in DOMAIN rt_errs :
        IsQuotaError(rt_errs[i]) =>
            /\ i = Len(rt_errs)
            /\ rt_pc = "thrown"
            /\ rt_result.status = 429
            /\ rt_result.code = "insufficient_quota"
            /\ rt_calls = i
            /\ Len(rt_delays) = i - 1

C1_Witness ==
    /\ rt_pc = "thrown"
    /\ Len(rt_errs) = 3
    /\ rt_errs[3] = ErrQuotaMsg500
    /\ rt_errs[1] = ErrRateLimit
    /\ rt_calls = 3

\* C7, in the wording of the specification: fn() is invoked at most 5 times in one call.
C7_AtMostFiveInvocations == rt_calls <= 5

\* C7, in the wording the code supports: fn() is invoked at most 1 + 5 times in one call (the first
\* attempt and at most 5 retries), 429 and 5xx failures drawing on the one
\* counter: the retries of both kinds together number at most 5.
C7_AtMostSixInvocations ==
    /\ rt_calls <= DefaultRetries + 1
    /\ Len(rt_delays) <= DefaultRetries
    /\ rt_attempt = Len(rt_delays)

C7_Witness ==
    /\ rt_pc = "thrown"
    /\ rt_calls = 6
    /\ rt_errs[1] = ErrRateLimit
    /\ rt_errs[2] = ErrServer500
    /\ rt_result = ErrServer500

\* C8: while fn() has failed k <= 5 times, each time with a retryable error,
\* the call is still running after exactly k invocations; and a call that
\* has returned returns fn()'s result after exactly k + 1 invocations, k
\* being the number of failures before it.
C8_SuccessAfterKFailures ==
    /\ (rt_pc = "returned" =>
            /\ rt_result = "ok"
            /\ rt_calls = Len(rt_errs) + 1
            /\ \A i \in DOMAIN rt_errs : IsRetryableClass(rt_errs[i]))
    /\ ((/\ rt_pc \in {"running", "thrown"}
         /\ Len(rt_errs) <= DefaultRetries
         /\ \A i \in DOMAIN rt_errs : IsRetryableClass(rt_errs[i])) =>
            /\ rt_pc = "running"
            /\ rt_calls = Len(rt_errs))

C8_Witness ==
    /\ rt_pc = "returned"
    /\ rt_errs = <<ErrRateLimit, ErrRateLimit>>
    /\ rt_calls = 3
    /\ rt_result = "ok"

\* C9: an error of no retried class (not quota, not 429, not 5xx) is the last
\* invocation of the call: the call has thrown that very error, no delay
\* follows it and fn() is not invoked again, so that it was invoked exactly
\* once, with no delay at all, when the error is the first failure.
C9_OtherErrorsPropagate ==
    \A i \in DOMAIN rt_errs :
        IsOtherClass(rt_errs[i]) =>
            /\ i = Len(rt_errs)
            /\ rt_pc = "thrown"
            /\ rt_result = rt_errs[i]
            /\ rt_calls = i
            /\ Len(rt_delays) = i - 1

C9_Witness ==
    /\ rt_pc = "thrown"
    /\ rt_errs = <<ErrNoStatus>>
    /\ rt_calls = 1
    /\ rt_delays = <<>>
    /\ rt_result = ErrNoStatus
-----------------------------------------------------------------------------
(* Properties of ingestion and deletion, checked under Spec *)

\* C2: an upload whose embedding call ended on a quota signal of the
\* provider is answered with status 429 and the quota message.
C2_QuotaUploadAnswers429 ==
    (up_pc = "done" /\ IsQuotaError(up_provErr)) =>
        /\ up_resp.status = 429
        /\ up_resp.message = "OpenAI quota exceeded. Please check billing or try later."

\* C3: every chunk is held by the store the query flow searches: no chunk
\* row sits in the chunks table while queries search the remote index, and
\* no vector sits in the remote index while queries search the chunks table.
C3_StoredWhereSearched ==
    /\ \A c \in chunks : SearchedStore = "database"
    /\ \A v \in pcVectors : SearchedStore = "pinecone"

\* C4: every record of the remote index carries the owner tag userId, equal
\* to the owner of the document of the chunk.
C4_RemoteRecordsCarryOwner ==
    \A v \in pcVectors :
        /\ "userId" \in DOMAIN v.metadata
        /\ v.metadata["userId"] = createdBy[v.metadata.documentId]

\* C6: once a delete request has answered 200, no chunk row and no vector of
\* the deleted document is left in either store.
C6_DeleteLeavesNothing ==
    (del_pc = "done" /\ del_resp.status = 200) =>
        /\ \A c \in chunks : c.documentId # del_doc
        /\ \A v \in pcVectors : v.metadata.documentId # del_doc

\* the records a step adds to the stores, in one shape
AddedRecords ==
    { [id |-> v.id, text |-> v.metadata.text, embedding |-> v.values,
       documentId |-> v.metadata.documentId] : v \in pcVectors' \ pcVectors }
    \cup
    { [id |-> c.id, text |-> c.text, embedding |-> c.embedding,
       documentId |-> c.documentId] : c \in chunks' \ chunks }

\* C10: the step that completes an ingestion with success, of the chunk list
\* c[1..n], stores exactly n records, the i-th of them holding c[i], the
\* provider's embedding of c[i] and the id of the new document, in the store
\* the response names, and the response reports chunksCreated = n.
C10_RecordsAlignWithChunks ==
    [][ (up_pc # "done" /\ up_pc' = "done" /\ up_resp'.status = 200) =>
            LET n == Len(up_chunks) IN
            /\ AddedRecords =
                 { [id |-> ChunkId(up_doc, i), text |-> up_chunks[i],
                    embedding |-> EmbedOf(up_chunks[i]), documentId |-> up_doc] :
                   i \in 1..n }
            /\ Cardinality(AddedRecords) = n
            /\ up_resp'.chunksCreated = n
            /\ up_resp'.documentId = up_doc
            /\ (up_resp'.storageMethod = "pinecone" => chunks' = chunks)
            /\ (up_resp'.storageMethod = "database" => pcVectors' = pcVectors)
      ]_vars

C10_Witness ==
    /\ up_pc = "done"
    /\ up_resp.status = 200
    /\ up_resp.chunksCreated = 2
    /\ up_chunks = <<TextB, TextA>>
    /\ { c \in chunks : c.documentId = up_doc } =
         { [id |-> ChunkId(up_doc, 1), documentId |-> up_doc, text |-> TextB,
            embedding |-> EmbedOf(TextB)],
           [id |-> ChunkId(up_doc, 2), documentId |-> up_doc, text |-> TextA,
            embedding |-> EmbedOf(TextA)] }

-----------------------------------------------------------------------------
(* Properties of the query flow, checked under SpecChat *)

OwnedBy(results, user) ==
    \A i \in DOMAIN results : createdBy[results[i].documentId] = user

\* C5: the results of a search scoped to an owner, in the chunks table and in
\* the remote index alike, and so the search results, the context and the
\* references of a chat request, only hold chunks of documents of that owner.
C5_OwnerIsolation ==
    /\ OwnedBy(chat_results, chat_user)
    /\ \A u \in Users, q \in {TextA, TextB} :
         /\ \A res \in SearchSimilarEmbeddingsInDB(EmbedOf(q), TopK, u) : OwnedBy(res, u)
         /\ \A res \in SearchSimilarEmbeddings(EmbedOf(q), TopK, u) : OwnedBy(res, u)

\* a chat answered from the requester's chunk while another owner's chunk is
\* strictly more similar to the query
C5_Witness ==
    /\ chat_pc = "done"
    /\ chat_resp.status = 200
    /\ chat_results # <<>>
    /\ \E c \in chunks :
         /\ createdBy[c.documentId] # chat_user
         /\ ScoreGT(Cosine(EmbedOf(chat_query), c.embedding), chat_results[1].score)

-----------------------------------------------------------------------------
(* Properties of the failure paths of ingestion, checked under Spec *)

\* C11: when PINECONE_API_KEY is set, the remote store call has failed and
\* the relational store call succeeds, the ingestion answers 200; and the
\* step that completes an ingestion with success reports storageMethod
\* 'pinecone' exactly when it wrote the records to the remote index, and
\* 'database' exactly when it wrote them to the chunks table.
C11_FallbackIsTransparent ==
    [][ /\ (/\ pineconeKey
            /\ up_pc = "storeDB" /\ up_pc' = "done"
            /\ chunks' # chunks
            /\ chunks' = chunks \cup ChunkRowsOf(up_embeddings)) =>
               /\ up_resp'.status = 200
               /\ up_resp'.storageMethod = "database"
        /\ (up_pc # "done" /\ up_pc' = "done" /\ up_resp'.status = 200) =>
               /\ up_resp'.storageMethod \in {"pinecone", "database"}
               /\ up_resp'.storageMethod = "pinecone" <=>
                     /\ pcVectors' # pcVectors
                     /\ pcVectors' = pcVectors \cup PineconeVectorsOf(up_embeddings)
               /\ up_resp'.storageMethod = "database" <=>
                     /\ chunks' # chunks
                     /\ chunks' = chunks \cup ChunkRowsOf(up_embeddings)
      ]_vars

\* the remote store is configured, its call failed, and the ingestion
\* answered success from the chunks table
C11_Witness ==
    /\ pineconeKey
    /\ up_pc = "done"
    /\ up_resp.status = 200
    /\ up_resp.storageMethod = "database"
    /\ \E c \in chunks : c.documentId = up_doc
    /\ \A v \in pcVectors : v.metadata.documentId # up_doc

\* C12: the step that fails an ingestion after the document record was
\* created (the embedding call failed, or the relational store call failed,
\* after the remote one when that was tried) answers an error, leaves the
\* documents table as it is, and leaves no chunk row and no vector of the
\* document in any store.
C12_FailedIngestionLeavesEmptyDocument ==
    [][ (up_pc \in {"embed", "storeDB"} /\ up_pc' = "done" /\ up_resp'.status # 200) =>
            /\ up_resp'.status \in {429, 500}
            /\ documents' = documents
            /\ \A c \in chunks' : c.documentId # up_doc
            /\ \A v \in pcVectors' : v.metadata.documentId # up_doc
      ]_vars

\* both store calls failed: the document record is there, with no chunk
C12_Witness ==
    /\ pineconeKey
    /\ up_pc = "done"
    /\ up_resp.status = 500
    /\ up_resp.message = "Failed to store embeddings"
    /\ up_doc \in DocumentIds
    /\ \A c \in chunks : c.documentId # up_doc
    /\ \A v \in pcVectors : v.metadata.documentId # up_doc

\* the checks of steps 1-3 pass exactly for the readable files with a text
\* that is not blank and a chunk list that is not empty
ChecksPassExactly ==
    \A file \in Files : \A extraction \in ExtractText(file) :
        UploadChecks(extraction).pass <=>
            /\ extraction.ok
            /\ Trim(extraction.text) # <<>>
            /\ SplitTextIntoChunks(CleanText(extraction.text), ChunkTokens) # <<>>

\* C13: an upload passes the checks exactly when text extraction succeeds,
\* the extracted text is not blank and the chunk list is not empty; the step
\* that rejects an upload answers 400 and leaves the documents, the chunks
\* and the remote index as they are, with no embedding requested; a
\* document record is created only by the step that passed the three
\* checks, and the embedding call is made only after it, for that document.
C13_RejectedUploadStoresNothing ==
    [][ /\ ChecksPassExactly
        /\ (up_pc = "idle" /\ up_pc' # "idle" /\ up_chunks' = <<>>) =>
              /\ up_pc' = "done"
              /\ up_resp'.status = 400
              /\ UNCHANGED <<documents, chunks, pcVectors, nextDocId, createdBy>>
              /\ up_provErr' = NoError
              /\ up_embeddings' = <<>>
        /\ (documents' \ documents # {}) =>
              /\ up_pc = "idle" /\ up_pc' = "embed"
              /\ up_chunks' # <<>>
              /\ \A i \in DOMAIN up_chunks' : Trim(up_chunks'[i]) # <<>>
              /\ documents' \ documents = {[id |-> up_doc', userId |-> up_user']}
              /\ up_embeddings' = <<>>
        /\ (up_pc' # "idle" /\ (up_embeddings' # up_embeddings \/ up_provErr' # up_provErr)) =>
              /\ up_pc = "embed"
              /\ up_doc \in DOMAIN createdBy
              /\ up_chunks # <<>>
      ]_vars

\* an upload of a text of punctuation alone, rejected for its empty chunk
\* list while the stores hold an earlier document
C13_Witness ==
    /\ up_pc = "done"
    /\ up_resp.status = 400
    /\ up_resp.message = "No text chunks could be created from the file"
    /\ up_doc = 0
    /\ documents # {}
    /\ chunks # {}

-----------------------------------------------------------------------------
(* Properties of the query flow, continued, checked under SpecChat *)

\* C14: a chat request is rejected with status 400 by its first step exactly
\* when its query is empty, blank or longer than 1000 characters (a query of
\* exactly 1000 characters goes on to the embedding); the rejecting step
\* leaves the stores and the chats table as they are and no result or answer
\* is produced; and the embedding, the search, the completion and the
\* persisting only ever run for a query that is not blank and of at most
\* 1000 characters.
C14_InvalidQueryRejectedFirst ==
    [][ /\ (chat_pc = "idle" /\ chat_pc' # "idle") =>
              /\ (chat_pc' = "done" /\ chat_resp'.status = 400) <=>
                     \/ Len(chat_query') = 0
                     \/ Len(Trim(chat_query')) = 0
                     \/ Len(chat_query') > 1000
              /\ (chat_pc' = "embed" /\ chat_resp' = NoChatResp) <=>
                     /\ Len(Trim(chat_query')) > 0
                     /\ Len(chat_query') <= 1000
              /\ UNCHANGED storeVars
              /\ chat_results' = <<>>
              /\ chat_answer' = <<>>
        /\ (chat_pc' \in {"embed", "search", "complete", "persist"}) =>
              /\ Len(Trim(chat_query')) > 0
              /\ Len(chat_query') <= 1000
        /\ \A c \in chats' : Len(Trim(c.query)) > 0 /\ Len(c.query) <= 1000
      ]_vars

\* a query one character past the limit, rejected while the stores hold a
\* document and its chunks
C14_Witness ==
    /\ chat_pc = "done"
    /\ chat_resp.status = 400
    /\ chat_resp.message = "Query is too long. Maximum 1000 characters."
    /\ Len(chat_query) = 1001
    /\ chat_results = <<>>
    /\ chats = {}
    /\ documents # {}

-----------------------------------------------------------------------------
(* Properties of the context assembly, checked under SpecContext *)

\* the positions of the search results whose score is above 0.70 (the
\* scores of SpecContext are hundredths)
AboveSeventy == {j \in DOMAIN chat_results : chat_results[j].score.dot > 70}

\* the i-th of these positions, in search order
KeptPosition(i) ==
    CHOOSE j \in AboveSeventy : Cardinality({k \in AboveSeventy : k < j}) = i - 1

KeptCount == IF Cardinality(AboveSeventy) < 5 THEN Cardinality(AboveSeventy) ELSE 5

\* C15: the context holds the texts of exactly the search results with a
\* score above 0.70 (a score of 0.70 is dropped), the first 5 of them at
\* most, in search order, and the references of the response hold one entry
\* for each of them, in the same order; the scores 0.85, 0.72, 0.69, 0.5
\* keep the first two results.
C15_ContextKeepsRelevantResults ==
    /\ (chat_pc \in {"persist", "done"}) =>
          /\ Len(chat_context) = KeptCount
          /\ \A i \in 1..KeptCount : chat_context[i] = chat_results[KeptPosition(i)].text
    /\ (chat_pc = "done" /\ chat_resp.status = 200) =>
          /\ Len(chat_resp.references) = KeptCount
          /\ \A i \in 1..KeptCount :
                /\ chat_resp.references[i].excerpt = chat_results[KeptPosition(i)].text
                /\ chat_resp.references[i].score = chat_results[KeptPosition(i)].score
    /\ (/\ chat_pc \in {"persist", "done"}
        /\ chat_results = SearchResultsOf(<<ScoreOf(85), ScoreOf(72), ScoreOf(69), ScoreOf(50)>>)) =>
          chat_context = <<Repeat("a", 1), Repeat("a", 2)>>

\* a chat answered on results with a score at the threshold among them and
\* more than 5 above it: positions 1, 3, 4, 5, 6 are kept, 2 and 7 are not
C15_Witness ==
    /\ chat_pc = "done"
    /\ chat_resp.status = 200
    /\ chat_results = SearchResultsOf(<<ScoreOf(85), ScoreOf(70), ScoreOf(85), ScoreOf(85),
                                        ScoreOf(85), ScoreOf(85), ScoreOf(85)>>)
    /\ chat_context = <<Repeat("a", 1), Repeat("a", 3), Repeat("a", 4), Repeat("a", 5),
                        Repeat("a", 6)>>
    /\ Len(chat_resp.references) = 5

-----------------------------------------------------------------------------
(* Properties of the persistence of chats, checked under SpecChat *)

\* C16: the step that follows a generated answer always answers 200 with
\* that answer and the references of the relevant results; when the chat
\* record could not be saved the chats table is as it was and chatId is the
\* placeholder, and when it was saved the one new record has the requester
\* as owner, the submitted query, the returned answer, and the returned
\* chatId as id.
C16_PersistenceIsBestEffort ==
    [][ (chat_pc = "persist" /\ chat_pc' # "persist") =>
            /\ chat_pc' = "done"
            /\ chat_resp'.status = 200
            /\ chat_resp'.answer = chat_answer
            /\ chat_resp'.answer # <<>>
            /\ chat_resp'.references = References(chat_results)
            /\ \/ /\ chats' = chats
                  /\ chat_resp'.chatId = 0
               \/ /\ chat_resp'.chatId # 0
                  /\ \A c \in chats : c.id # chat_resp'.chatId
                  /\ chats' = chats \cup {[id |-> chat_resp'.chatId, userId |-> chat_user,
                                           query |-> chat_query,
                                           answer |-> chat_resp'.answer]}
      ]_vars

\* a chat answered with references although its record could not be saved
C16_Witness ==
    /\ chat_pc = "done"
    /\ chat_resp.status = 200
    /\ chat_resp.chatId = 0
    /\ chat_resp.answer # <<>>
    /\ chat_resp.references # <<>>
    /\ chats = {}

-----------------------------------------------------------------------------
(* Properties of the search of the database, checked under SpecSearch *)

\* the chunks in the scope of the search that has returned
InScope ==
    { c \in chunks :
        \/ call_args.userId = ""
        \/ [id |-> c.documentId, userId |-> call_args.userId] \in documents }

\* the stored chunk a result stands for
ChunkOf(result) == CHOOSE c \in chunks : c.id = result.id

\* cos(q, v) >= cos(q, w), for vectors of components that are not negative
CosGE(q, v, w) ==
    Dot(q, v) * Dot(q, v) * Dot(w, w) >= Dot(q, w) * Dot(q, w) * Dot(v, v)

-----------------------------------------------------------------------------
(* Properties of the embedding functions, checked under SpecEmbed *)

\* C18: a call of generateEmbeddings with a list that is not empty and holds
\* blank texts only, and a call of generateEmbedding with a blank text, fail
\* (with the error of the empty input) and make no request to the provider.
C18_BlankInputFails ==
    (/\ call_pc = "returned"
     /\ call_fn \in {"generateEmbeddings", "generateEmbedding"}
     /\ call_args.texts # <<>>
     /\ \A i \in DOMAIN call_args.texts : Trim(call_args.texts[i]) = <<>>) =>
        /\ ~call_result.ok
        /\ call_result.calls = 0

-----------------------------------------------------------------------------
(* Properties of the quiz and delete routes, checked under SpecQuiz *)

\* C19: the questions of a quiz answered with success number between 1 and
\* numQuestions, and each has a question text that is not empty, exactly 4
\* options, and a correctAnswer that is a number and an index of the
\* options, 0 to 3; a numQuestions outside 1..20 is rejected without any
\* request to the provider.
C19_ReturnedQuestionsAreValid ==
    /\ (quiz_pc = "done" /\ quiz_resp.status = 200) =>
          /\ Len(quiz_resp.questions) >= 1
          /\ Len(quiz_resp.questions) <= quiz_num
          /\ \A i \in DOMAIN quiz_resp.questions :
                LET q == quiz_resp.questions[i] IN
                /\ q.question # <<>>
                /\ q.options.isArray
                /\ Len(q.options.items) = 4
                /\ q.correctAnswer.type = "number"
                /\ q.correctAnswer.value \in 0..3
    /\ (quiz_pc # "idle" /\ quiz_num \notin 1..20) =>
          /\ quiz_pc = "done"
          /\ quiz_resp.status = 400
          /\ quiz_calls = 0

\* the outcome of a quiz request for a document the requester does not own
QuizNotFound == QuizResp(404, "Document not found or access denied")

\* the outcome of a delete request for a document the requester does not own
DeleteNotFound == Resp(404, "Document not found or access denied")

\* C20: a quiz request (with a valid body) and a delete request that name a
\* document the requester does not own are answered by their first step
\* with one and the same not-found response, whether the document is
\* another user's or does not exist; that step reads no chunk, requests
\* nothing from the provider and leaves every store as it is; and chunks are
\* read, the provider is called and deletes are made only for a document
\* that was created for the requester.
C20_NotFoundHidesExistence ==
    [][ /\ (/\ quiz_pc = "idle" /\ quiz_pc' # "idle"
            /\ quiz_doc' # 0 /\ quiz_num' \in 1..20
            /\ ~(\E d \in documents : d.id = quiz_doc' /\ d.userId = quiz_user')) =>
               /\ quiz_pc' = "done"
               /\ quiz_resp' = QuizNotFound
               /\ quiz_chunks' = {}
               /\ quiz_calls' = 0
               /\ UNCHANGED storeVars
        /\ (/\ del_pc = "idle" /\ del_pc' # "idle"
            /\ ~(\E d \in documents : d.id = del_doc' /\ d.userId = del_user')) =>
               /\ del_pc' = "done"
               /\ del_resp' = DeleteNotFound
               /\ UNCHANGED storeVars
        /\ (quiz_pc' \in {"chunks", "generate"}) =>
               /\ quiz_doc' \in DOMAIN createdBy
               /\ createdBy[quiz_doc'] = quiz_user'
        /\ (quiz_chunks' # {} \/ quiz_calls' # 0) =>
               createdBy[quiz_doc'] = quiz_user'
        /\ (del_pc' \in {"vectors", "document"}) =>
               /\ del_doc' \in DOMAIN createdBy
               /\ createdBy[del_doc'] = del_user'
        /\ (documents' # documents /\ del_pc # "idle" /\ del_pc' = "done") =>
               createdBy[del_doc] = del_user
      ]_vars

\* a quiz request of alice for a document of bob that holds chunks,
\* answered as a request for a document that does not exist is
C20_Witness ==
    /\ quiz_pc = "done"
    /\ quiz_user = "alice"
    /\ quiz_resp = QuizNotFound
    /\ [id |-> quiz_doc, userId |-> "bob"] \in documents
    /\ \E c \in chunks : c.documentId = quiz_doc
    /\ quiz_chunks = {}
    /\ quiz_calls = 0

-----------------------------------------------------------------------------
(* Properties of POST /api/quiz/validate, checked under SpecValidate *)

\* the validate request that has just been answered
Validated == call_pc = "returned" /\ call_fn = "validateQuizAnswers"

\* the number of positions where the answer is the correct answer
RECURSIVE Matches(_, _)
Matches(answers, questions) ==
    IF answers = <<>> THEN 0
    ELSE (IF answers[1] = questions[1].correctAnswer THEN 1 ELSE 0)
            + Matches(Tail(answers), Tail(questions))

\* C21: on answers and questions of equal length n >= 1 the validation
\* answers totalQuestions = n, score = the number of positions where the
\* answer is the question's correct answer, percentage = the integer nearest
\* to 100 * score / n (the upper one at a half), and one result per position
\* in order; 5 answers 0 1 2 1 3 against the correct answers 0 1 0 1 3 score
\* 4 and 80 percent; arrays of unequal length are rejected and no score is
\* computed.
C21_ValidationScores ==
    Validated /\ call_args.answers.isArray /\ call_args.questions.isArray =>
        LET answers == call_args.answers.items
            questions == call_args.questions.items
            n == Len(answers)
            r == call_result
        IN
        /\ (n = Len(questions) /\ n >= 1) =>
              /\ r.status = 200 /\ r.hasData
              /\ r.totalQuestions = n
              /\ r.score = Matches(answers, questions)
              /\ ~r.percentageIsNaN
              /\ 2 * n * r.percentage <= 200 * r.score + n
              /\ 2 * n * r.percentage > 200 * r.score - n
              /\ Len(r.results) = n
              /\ \A i \in 1..n :
                    /\ r.results[i].questionIndex = i - 1
                    /\ r.results[i].userAnswer = answers[i]
                    /\ r.results[i].correctAnswer = questions[i].correctAnswer
                    /\ r.results[i].isCorrect = (answers[i] = questions[i].correctAnswer)
        /\ (answers = <<Num(0), Num(1), Num(2), Num(1), Num(3)>>
              /\ questions = QuestionsOf(<<0, 1, 0, 1, 3>>)) =>
              r.score = 4 /\ r.percentage = 80
        /\ n # Len(questions) =>
              /\ r.status = 400
              /\ ~r.hasData
              /\ r.results = <<>>

\* the validation has scored 2 right answers of 3: 66.67 percent, answered
\* as 67
C21_Witness ==
    /\ Validated
    /\ call_result.status = 200
    /\ call_result.totalQuestions = 3
    /\ call_result.score = 2
    /\ call_result.percentage = 67

-----------------------------------------------------------------------------
(* Properties of splitTextIntoChunks, checked under SpecSplit *)

\* the call of splitTextIntoChunks that has just returned
SplitReturned == call_pc = "returned" /\ call_fn = "splitTextIntoChunks"

\* a chunk of one sentence: the chunks join their sentences with '. ' and a
\* sentence holds no terminator
IsSingleSentence(chunk) == \A i \in DOMAIN chunk : chunk[i] \notin Terminators

\* C22: every chunk splitTextIntoChunks produces has an estimated token
\* count (length / 4) of at most maxTokens, except a chunk that is a single
\* sentence which alone exceeds the limit.
C22_ChunksWithinLimit ==
    SplitReturned =>
        \A i \in DOMAIN call_result.value :
            \/ Len(call_result.value[i]) <= 4 * call_args.maxTokens
            \/ IsSingleSentence(call_result.value[i])

\* the non-empty trimmed sentences of a text, split at the terminators
TrimmedSentences(text) ==
    LET pieces == SplitPieces(text, <<>>)
        kept == SelectSeq(pieces, LAMBDA s : Trim(s) # <<>>)
    IN [i \in DOMAIN kept |-> Trim(kept[i])]

\* the chunks one after the other, a full stop between two chunks
RECURSIVE JoinChunks(_)
JoinChunks(chunkList) ==
    IF chunkList = <<>> THEN <<>>
    ELSE IF Len(chunkList) = 1 THEN chunkList[1]
    ELSE chunkList[1] \o <<".">> \o JoinChunks(Tail(chunkList))

\* C23: splitTextIntoChunks neither drops nor duplicates nor reorders
\* sentences: the non-empty trimmed sentences of the input are the sentences
\* of the chunks taken together, each once and in the order of the source;
\* no chunk is empty or blank; a text without a non-empty sentence yields the
\* empty list.
C23_SentencesPreserved ==
    SplitReturned =>
        LET result == call_result.value IN
        /\ TrimmedSentences(JoinChunks(result)) = TrimmedSentences(call_args.text)
        /\ \A i \in DOMAIN result :
              /\ Trim(result[i]) # <<>>
              /\ TrimmedSentences(result[i]) # <<>>
        /\ TrimmedSentences(call_args.text) = <<>> => result = <<>>

\* three sentences were split into two chunks, the second of two sentences
C23_Witness ==
    /\ SplitReturned
    /\ call_args.text = <<"a", "a", "a", "!", "b", "b", "?", "a">>
    /\ call_args.maxTokens = 1
    /\ call_result.value = <<<<"a", "a", "a">>, <<"b", "b", ".", " ", "a">>>>

-----------------------------------------------------------------------------
(* The delays and the termination of withRetries, checked under SpecRetry *)

\* C24: with the default base delay, the wait before the n-th retry
\* (n = 0, 1, 2, ...) is 500 * 2^n milliseconds after a 5xx failure and
\* after a 429 failure without a Retry-After header; after a 429 failure
\* with a numeric Retry-After header of s seconds it is s * 1000
\* milliseconds.
C24_BackoffDelays ==
    \A i \in DOMAIN rt_delays :
        LET err == rt_errs[i]
            n == i - 1
        IN
        /\ (err.status = 429 /\ err.retryAfter.kind = "num") =>
              rt_delays[i] = err.retryAfter.sec * 1000
        /\ (err.status >= 500 \/ (err.status = 429 /\ err.retryAfter.kind = "absent")) =>
              rt_delays[i] = 500 * (2 ^ n)

\* C25: every withRetries call eventually returns or throws, whatever the
\* outcomes of the invocations, given that every invocation and every delay
\* completes: attempt grows by one on every retry, and no retry happens once
\* attempt has reached the cap. Checked under SpecRetryLive.
C25_WithRetriesTerminates ==
    /\ (rt_pc = "running") ~> (rt_pc \in {"returned", "thrown"})
    /\ [][(rt_pc = "running" /\ rt_pc' = "running") =>
             /\ rt_attempt < DefaultRetries
             /\ rt_attempt' = rt_attempt + 1]_vars

\* a call has ended with attempt at the cap, after delays of every retry
C25_Witness ==
    /\ rt_pc = "thrown"
    /\ rt_attempt = DefaultRetries
    /\ Len(rt_delays) = DefaultRetries
    /\ rt_errs[DefaultRetries + 1] = ErrServer599

-----------------------------------------------------------------------------
(* The stages of the query flow, checked under SpecChat *)

StageOrder == <<"embed", "search", "complete", "persist">>

\* the stages of the calls the chat handler has made so far
StagesRun == [i \in DOMAIN chat_trace |-> chat_trace[i].stage]

\* the message of the failure of each stage that can fail the request
StageFailure(stage) ==
    CASE stage = "embed" -> "Failed to process query"
      [] stage = "search" -> "Failed to search knowledge base"
      [] stage = "complete" -> "Failed to generate response"
      [] OTHER -> ""

\* C26: the query flow runs its stages in the order embed, search, complete,
\* persist and stops at the first stage that fails, with the failure of that
\* stage: no search and no completion after an embedding failure, no
\* completion after a search failure, and no chat record whenever the
\* embedding, the search or the completion has failed.
C26_StagesInOrder ==
    /\ [](/\ Len(StagesRun) <= Len(StageOrder)
          /\ StagesRun = SubSeq(StageOrder, 1, Len(StagesRun))
          /\ \A i \in DOMAIN chat_trace :
                (~chat_trace[i].ok /\ chat_trace[i].stage # "persist") =>
                    /\ i = Len(chat_trace)
                    /\ chat_pc = "done"
                    /\ chat_resp.status = 500
                    /\ chat_resp.message = StageFailure(chat_trace[i].stage)
                    /\ chat_resp.answer = <<>>
          /\ (chat_pc = "done" /\ chat_resp.status = 200) =>
                /\ StagesRun = StageOrder
                /\ \A i \in 1..3 : chat_trace[i].ok)
    /\ [][chats' # chats =>
             /\ chat_pc = "persist"
             /\ StagesRun = SubSeq(StageOrder, 1, 3)
             /\ \A i \in DOMAIN chat_trace : chat_trace[i].ok
             /\ chat_resp'.status = 200]_vars

\* a request has stopped at a failed search, over a store that holds a
\* chunk of the requester
C26_Witness ==
    /\ chat_pc = "done"
    /\ chat_resp.message = "Failed to search knowledge base"
    /\ StagesRun = <<"embed", "search">>
    /\ ~chat_trace[2].ok
    /\ \E c \in chunks : [id |-> c.documentId, userId |-> chat_user] \in documents
    /\ chats = {}

-----------------------------------------------------------------------------
(* generateQuizQuestions, checked under SpecQuizGen *)

\* the call of generateQuizQuestions that has just returned or thrown
QuizGenReturned == call_pc = "returned" /\ call_fn = "generateQuizQuestions"

\* C27: generateQuizQuestions never asks the provider again because of a
\* parse failure: when the provider answers with content that is not JSON,
\* the call fails with the parse error after exactly one successful answer
\* of the provider; every repetition of the completion request follows a
\* 429 or a 5xx failure.
C27_ParseFailureIsNotRetried ==
    QuizGenReturned =>
        LET script == call_args.script
            content == call_args.content
            calls == call_result.calls
        IN
        /\ calls \in 1..Len(script)
        /\ \A i \in 1..(calls - 1) : ~script[i].ok /\ IsRetryableClass(script[i].err)
        /\ (script[calls].ok /\ content.kind = "text") =>
              /\ ~call_result.ok
              /\ call_result.error.message = <<"Failed", "to", "parse", "quiz", "questions">>
              /\ Cardinality({i \in 1..calls : script[i].ok}) = 1

\* the provider was rate limited once, then answered with a text that is
\* not JSON, and had another answer ready: the call failed on the parse
\* after two requests
C27_Witness ==
    /\ QuizGenReturned
    /\ call_args.script = <<Rejects(ErrRateLimit), Resolves, Resolves>>
    /\ call_args.content.kind = "text"
    /\ ~call_result.ok
    /\ call_result.calls = 2

-----------------------------------------------------------------------------
(* Ingested documents and the quiz, checked under SpecQuiz *)

\* the rows of the chunks table of a document: what getChunksByDocumentId
\* reads and what _count.chunks counts
RelationalChunks(docId) == {c \in chunks : c.documentId = docId}

\* C28: every document whose ingestion has reported success, with either
\* storageMethod, has at least one chunk in the relational store: its chunk
\* count is chunksCreated, and a quiz request of its owner never ends with
\* the no-content outcome (a document without relational chunks is a failed
\* ingestion, one that stored no vector anywhere).
C28_IngestedDocumentsHaveChunks ==
    /\ (up_pc = "done" /\ up_resp.status = 200) =>
          /\ RelationalChunks(up_resp.documentId) # {}
          /\ Cardinality(RelationalChunks(up_resp.documentId)) = up_resp.chunksCreated
    /\ (quiz_pc = "done" /\ quiz_resp.status = 400
            /\ quiz_resp.message = "No content available for this document to generate quiz questions") =>
          ~\E v \in pcVectors : MetadataEq(v, "documentId", quiz_doc)

-----------------------------------------------------------------------------
(* Ingestion racing with deletion, checked under Spec *)

\* C29: when a delete request for the document an ingestion has just created
\* runs between the creation of the document and the storage of its
\* vectors, then after both requests have finished no vector and no chunk of
\* either store references the deleted document: no orphaned vectors.
C29_NoOrphansAfterRace ==
    [][(/\ up_pc \in {"storePinecone", "storeDB"}
        /\ up_pc' = "done"
        /\ del_pc = "done" /\ del_pc' = "done"
        /\ del_doc = up_doc
        /\ del_resp.status = 200) =>
           /\ up_doc \notin {d.id : d \in documents'}
           /\ \A v \in pcVectors' : ~MetadataEq(v, "documentId", up_doc)
           /\ \A c \in chunks' : c.documentId # up_doc]_vars

-----------------------------------------------------------------------------
(* The completion request on an empty context, checked under SpecContext *)

\* the completion requests the chat handler has made
CompletionCalls == SelectSeq(chat_trace, LAMBDA c : c.stage = "complete")

\* C30: when no search result has a score above 0.70 (the search returning
\* nothing included), the query flow does not stop short: it makes exactly
\* one completion request, with an empty context and an empty list of
\* references, and the user turn of the request is the raw query, not the
\* framing 'Context information: ... Question: ...'.
C30_EmptyContextStillCompletes ==
    /\ []((AboveSeventy = {} /\ chat_pc \in {"persist", "done"}) =>
             /\ Len(CompletionCalls) = 1
             /\ chat_context = <<>>
             /\ Len(CompletionCalls[1].messages) = 2
             /\ CompletionCalls[1].messages[1] = [role |-> "system", content |-> SystemPrompt(<<>>)]
             /\ CompletionCalls[1].messages[2] = [role |-> "user", content |-> chat_query]
             /\ (chat_pc = "done" /\ chat_resp.status = 200) => chat_resp.references = <<>>)
    /\ [][(AboveSeventy = {} /\ chat_pc = "complete") =>
             /\ chat_pc' \in {"persist", "done"}
             /\ Len(chat_trace') = Len(chat_trace) + 1
             /\ chat_trace'[Len(chat_trace')].stage = "complete"]_vars

\* a query was answered on three search results, none above 0.70 (one of them
\* at 0.70): one completion request with the raw query, no reference
C30_Witness ==
    /\ chat_pc = "done"
    /\ chat_resp.status = 200
    /\ chat_results = SearchResultsOf(<<ScoreOf(70), ScoreOf(69), ScoreOf(50)>>)
    /\ Len(CompletionCalls) = 1
    /\ CompletionCalls[1].ok
    /\ CompletionCalls[1].messages[2].content = chat_query
    /\ chat_resp.references = <<>>

=============================================================================
